---- MODULE Spec2Model ----
(***************************************************************************)
(* Model of the evidence pipeline of agentic-rag-answer-engine:            *)
(*   - DocumentChunker.chunk_text / chunk_by_sections (ingestion/chunking) *)
(*   - IndexBuilder.add_document / add_documents_batch (index_builder)     *)
(*   - RouterAgent.decide (agents/router_agent)                            *)
(*   - FusionAgent.fuse (agents/fusion_agent)                              *)
(*   - AnswerAgent.generate_answer (agents/answer_agent)                   *)
(*   - Orchestrator.run_query (orchestration/graph)                        *)
(*   - DocumentChunker.chunk_by_tokens (ingestion/chunking)                *)
(*   - the /upload and /query endpoints (api/app)                          *)
(* Texts are sequences of one-character strings; positions are 0-based as  *)
(* in the Python source (character i of the code is text[i + 1] here).     *)
(***************************************************************************)
EXTENDS Integers, Sequences, FiniteSets, TLC

(* ------------------------------ bounds -------------------------------- *)
\* longest text handed to chunk_text
MaxLen == 5
\* largest chunk_size / chunk_overlap tried
MaxSize == 4
\* chunk_text's list is cut here: the loop of the source may append forever
MaxChunks == 4

(* --------------------------- state variables -------------------------- *)
VARIABLES
    text,           \* chunk_text / chunk_by_sections: the text argument
    chunk_size,     \* chunk_text: argument
    chunk_overlap,  \* chunk_text: argument
    document_id,    \* chunk_text / chunk_by_sections: argument
    start,          \* chunk_text: local, window start
    chunk_counter,  \* chunk_text: local
    chunks,         \* chunk_text: local list, the value returned
    cpc,            \* chunk_text: "idle", "call", "loop", "body", "returned", "raised"
    entry,          \* IndexBuilder: the method called, "add_document" or "add_documents_batch"
    documents,      \* IndexBuilder: the documents handed to the call
    doc_pos,        \* add_documents_batch: position of the for loop in documents
    doc_ids,        \* add_documents_batch: local list, the value returned
    error_log,      \* add_documents_batch: sources logged by logger.error
    index,          \* IndexBuilder.index: None (built = FALSE) or the nodes it holds
    ipc,            \* IndexBuilder call: "idle", "call", "batch_loop", "chunking", "returned", "raised"
    paragraphs,     \* chunk_by_sections: local, the split text
    sec_idx,        \* chunk_by_sections: position of the for loop (0-based)
    sec_chunks,     \* chunk_by_sections: local list, the value returned
    spc,            \* chunk_by_sections: "idle", "call", "loop", "returned"
    query,          \* RouterAgent.decide: argument
    metadata,       \* RouterAgent.decide: argument, a dict as a set of <<key, value>>
    decision,       \* RouterAgent.decide: the dict returned
    rpc,            \* RouterAgent.decide: "idle", "call", "returned"
    doc_results,    \* FusionAgent.fuse: argument, None or a list of document hits
    web_results,    \* FusionAgent.fuse: argument, None or a list of web hits
    merged,         \* FusionAgent.fuse: local list before line 90 sorts it
    fused,          \* FusionAgent.fuse: the dict returned
    fpc,            \* FusionAgent.fuse: "idle", "call", "returned", "raised"
    llm_prompt,     \* AnswerAgent.generate_answer: the prompt handed to llm.chat
    llm_reply,      \* AnswerAgent: what llm.chat does, raise or return a text
    final,          \* AnswerAgent.generate_answer: the dict returned
    apc,            \* AnswerAgent.generate_answer: "idle", "call", "returned"
    runs,           \* Orchestrator.run_query: the frame of each execution in progress
    max_tokens,     \* chunk_by_tokens: argument
    words,          \* chunk_by_tokens: local, text.split()
    word_pos,       \* chunk_by_tokens: position of the for loop in words
    chunk_words,    \* chunk_by_tokens: local, the words accumulated
    token_counter,  \* chunk_by_tokens: local chunk_counter
    token_chunks,   \* chunk_by_tokens: local chunks, the value returned
    tpc,            \* chunk_by_tokens: "idle", "call", "loop", "flush", "returned"
    upload_dir,     \* api: the file names in UPLOAD_DIR
    indexed_docs,   \* api: the document ids doc_agent has ingested
    requests,       \* api: the requests served so far
    response        \* api: the last response, with the metadata a /query was routed with

chunkVars == <<text, chunk_size, chunk_overlap, document_id, start, chunk_counter, chunks, cpc>>

ingestVars == <<entry, documents, doc_pos, doc_ids, error_log, index, ipc>>

sectionVars == <<paragraphs, sec_idx, sec_chunks, spc>>

routerVars == <<query, metadata, decision, rpc>>

fusionVars == <<doc_results, web_results, merged, fused, fpc>>

answerVars == <<llm_prompt, llm_reply, final, apc>>

orchVars == <<runs>>

tokenVars == <<max_tokens, words, word_pos, chunk_words, token_counter, token_chunks, tpc>>

apiVars == <<upload_dir, indexed_docs, requests, response>>

laterVars == <<orchVars, tokenVars, apiVars>>

vars == <<chunkVars, ingestVars, sectionVars, routerVars, fusionVars, answerVars, laterVars>>

\* what the steps of chunk_text leave alone
notChunk == <<ingestVars, sectionVars, routerVars, fusionVars, answerVars, laterVars>>

\* what the steps of IndexBuilder leave alone (chunk_text runs inside them)
notIngest == <<sectionVars, routerVars, fusionVars, answerVars, laterVars>>

\* what the steps of chunk_by_sections leave alone (text and document_id are its arguments)
notSection ==
    <<chunk_size, chunk_overlap, start, chunk_counter, chunks, cpc, ingestVars, routerVars,
      fusionVars, answerVars, laterVars>>

\* what the steps of the router leave alone
notRouter == <<chunkVars, ingestVars, sectionVars, fusionVars, answerVars, laterVars>>

\* what fuse leaves alone
notFusion == <<chunkVars, ingestVars, sectionVars, routerVars, answerVars, laterVars>>

\* what generate_answer leaves alone (fused is its argument)
notAnswer == <<chunkVars, ingestVars, sectionVars, routerVars, fusionVars, laterVars>>

\* what the steps of run_query leave alone
notOrch ==
    <<chunkVars, ingestVars, sectionVars, routerVars, fusionVars, answerVars, tokenVars, apiVars>>

\* what the steps of chunk_by_tokens leave alone (text and document_id are its arguments)
notToken ==
    <<chunk_size, chunk_overlap, start, chunk_counter, chunks, cpc, ingestVars, sectionVars,
      routerVars, fusionVars, answerVars, orchVars, apiVars>>

\* what the endpoints leave alone
notApi ==
    <<chunkVars, ingestVars, sectionVars, routerVars, fusionVars, answerVars, orchVars, tokenVars>>

(* ------------------------- Python string helpers ---------------------- *)
Min(a, b) == IF a <= b THEN a ELSE b

Max(a, b) == IF a >= b THEN a ELSE b

\* the characters str.strip() removes that occur in the modelled texts
Whitespace == {" ", "\n", "\t"}

RECURSIVE LStrip(_)
LStrip(s) == IF s # <<>> /\ Head(s) \in Whitespace THEN LStrip(Tail(s)) ELSE s

RECURSIVE RStrip(_)
RStrip(s) ==
    IF s # <<>> /\ s[Len(s)] \in Whitespace THEN RStrip(SubSeq(s, 1, Len(s) - 1)) ELSE s

\* str.strip()
Strip(s) == RStrip(LStrip(s))

\* how Python turns a slice bound into a position of a string of length n
SliceIndex(i, n) == IF i < 0 THEN Max(i + n, 0) ELSE Min(i, n)

\* s[i:j]
Slice(s, i, j) ==
    LET a == SliceIndex(i, Len(s))
        b == SliceIndex(j, Len(s))
    IN  IF a >= b THEN <<>> ELSE SubSeq(s, a + 1, b)

\* s.rfind(ch, i, j) for a one-character ch
RFind(s, ch, i, j) ==
    LET a == SliceIndex(i, Len(s))
        b == SliceIndex(j, Len(s))
        hits == {k \in a..(b - 1) : s[k + 1] = ch}
    IN  IF hits = {} THEN -1 ELSE CHOOSE k \in hits : \A m \in hits : m <= k

\* all sequences over alphabet of length at most n
TextsOver(alphabet, n) == UNION {[1..k -> alphabet] : k \in 0..n}

(* ------------------------ DocumentChunker.chunk_text ------------------ *)
ChunkAlphabet == {"a", ".", " ", "\n"}

DocIds == {"doc1", ""}

\* mutant of OverlapInvalid: an overlap equal to the size is let through
OverlapInvalidStrict(size, overlap) == overlap > size

\* line 44: the configuration check
OverlapInvalid(size, overlap) == overlap >= size

\* mutant of WindowEnd: the window is one character too wide
WindowEndWide(t, st, size) == Min(st + size + 1, Len(t))

\* line 53
WindowEnd(t, st, size) == Min(st + size, Len(t))

\* lines 58-60
LastBoundary(t, st, e) == Max(RFind(t, ".", st, e), RFind(t, "\n", st, e))

\* lines 53-63: where the window starting at st ends
ChunkEnd(t, st, size) ==
    LET e == WindowEnd(t, st, size)
    IN  IF e < Len(t) /\ LastBoundary(t, st, e) > st
        THEN LastBoundary(t, st, e) + 1
        ELSE e

\* line 65
ChunkContent(t, st, e) == Strip(Slice(t, st, e))

\* line 77
ChunkId(d, i) == d \o "_chunk_" \o ToString(i)

\* lines 68-79
TextChunk(d, i, st, e, c) ==
    [content |-> c, chunk_id |-> ChunkId(d, i), document_id |-> d,
     chunk_index |-> i, start_position |-> st, end_position |-> e]

\* mutant of CounterAfter: the counter advances on an empty window too
CounterAfterAlways(i, c) == i + 1

\* lines 67, 81: the counter after a window with content c
CounterAfter(i, c) == IF c # <<>> THEN i + 1 ELSE i

\* mutant of NextStart: the next window starts one character late
NextStartLate(e, overlap) == e - overlap + 1

\* line 84
NextStart(e, overlap) == e - overlap

IngestIdle ==
    /\ entry = "none"
    /\ documents = <<>>
    /\ doc_pos = 0
    /\ doc_ids = <<>>
    /\ error_log = <<>>
    /\ index = [built |-> FALSE, nodes |-> <<>>]
    /\ ipc = "idle"

SectionIdle ==
    /\ paragraphs = <<>>
    /\ sec_idx = 0
    /\ sec_chunks = <<>>
    /\ spc = "idle"

RouterIdle ==
    /\ query = <<>>
    /\ metadata = {}
    /\ decision = [use_documents |-> FALSE, use_web |-> FALSE, reason |-> ""]
    /\ rpc = "idle"

ChunkIdle ==
    /\ text = <<>>
    /\ chunk_size = 1
    /\ chunk_overlap = 0
    /\ document_id = ""
    /\ start = 0
    /\ chunk_counter = 0
    /\ chunks = <<>>
    /\ cpc = "idle"

FusionIdle ==
    /\ doc_results = [none |-> TRUE, hits |-> <<>>]
    /\ web_results = [none |-> TRUE, hits |-> <<>>]
    /\ merged = <<>>
    /\ fused = [evidence |-> <<>>, summary_prompt |-> [header |-> "", lines |-> <<>>, footer |-> ""]]
    /\ fpc = "idle"

AnswerIdle ==
    /\ llm_prompt = <<>>
    /\ llm_reply = [raises |-> FALSE, text |-> <<>>]
    /\ final = [answer |-> <<>>, citations |-> <<>>, sources_text |-> <<>>]
    /\ apc = "idle"

OrchIdle == runs = <<>>

TokenIdle ==
    /\ max_tokens = 1
    /\ words = <<>>
    /\ word_pos = 0
    /\ chunk_words = <<>>
    /\ token_counter = 0
    /\ token_chunks = <<>>
    /\ tpc = "idle"

ApiIdle ==
    /\ upload_dir = {}
    /\ indexed_docs = {}
    /\ requests = 0
    /\ response = [endpoint |-> "none", status |-> 0, detail |-> "",
                    has_uploaded_docs |-> FALSE, use_documents |-> FALSE]

LaterIdle == OrchIdle /\ TokenIdle /\ ApiIdle

ChunkInit ==
    /\ text \in TextsOver(ChunkAlphabet, MaxLen)
    /\ chunk_size \in 1..MaxSize
    /\ chunk_overlap \in 0..MaxSize
    /\ document_id \in DocIds
    /\ start = 0
    /\ chunk_counter = 0
    /\ chunks = <<>>
    /\ cpc = "call"
    /\ IngestIdle
    /\ SectionIdle
    /\ RouterIdle
    /\ FusionIdle
    /\ AnswerIdle
    /\ LaterIdle

\* lines 44-49: the check of the arguments, then the locals
ChunkTextCall ==
    /\ cpc = "call"
    /\ IF OverlapInvalid(chunk_size, chunk_overlap)
       THEN /\ cpc' = "raised"
            /\ UNCHANGED <<start, chunk_counter, chunks>>
       ELSE /\ cpc' = "loop"
            /\ start' = 0
            /\ chunk_counter' = 0
            /\ chunks' = <<>>
    /\ UNCHANGED <<text, chunk_size, chunk_overlap, document_id>>
    /\ UNCHANGED notChunk

\* line 51: the loop condition holds, the body is entered
ChunkTextTest ==
    /\ cpc = "loop"
    /\ start < Len(text)
    /\ cpc' = "body"
    /\ UNCHANGED <<text, chunk_size, chunk_overlap, document_id, start, chunk_counter, chunks>>
    /\ UNCHANGED notChunk

\* lines 52-84: the body of the while loop, one window
ChunkTextWindow ==
    /\ cpc = "body"
    /\ Len(chunks) < MaxChunks
    /\ LET e == ChunkEnd(text, start, chunk_size)
           c == ChunkContent(text, start, e)
       IN  /\ chunks' = IF c # <<>>
                        THEN Append(chunks, TextChunk(document_id, chunk_counter, start, e, c))
                        ELSE chunks
           /\ chunk_counter' = CounterAfter(chunk_counter, c)
           /\ start' = NextStart(e, chunk_overlap)
    /\ cpc' = "loop"
    /\ UNCHANGED <<text, chunk_size, chunk_overlap, document_id>>
    /\ UNCHANGED notChunk

\* lines 51, 86-87: the loop condition fails and the list is returned
ChunkTextReturn ==
    /\ cpc = "loop"
    /\ start >= Len(text)
    /\ cpc' = "returned"
    /\ UNCHANGED <<text, chunk_size, chunk_overlap, document_id, start, chunk_counter, chunks>>
    /\ UNCHANGED notChunk

Init == ChunkInit

Next == ChunkTextCall \/ ChunkTextTest \/ ChunkTextWindow \/ ChunkTextReturn

Spec == Init /\ [][Next]_vars

\* the interpreter keeps running a call that can take a step
FairSpec == Init /\ [][Next]_vars /\ WF_vars(Next)

(* ------------- IndexBuilder.add_document / add_documents_batch -------- *)
\* longest batch handed to add_documents_batch
MaxBatch == 2

\* the document texts ingested
DocTexts == {<<>>, <<"a">>, <<"a", ".", " ", "a">>}

DocSources == {"notes.txt"}

\* line 113: Path(source).stem for the modelled sources
PathStem(src) == CASE src = "notes.txt" -> "notes" [] OTHER -> src

\* line 113: doc.get('id', Path(doc['source']).stem)
DocId(doc) == IF doc.id = "absent" THEN PathStem(doc.source) ELSE doc.id

Docs == [content : DocTexts, id : {"doc1", "absent"}, source : DocSources]

\* lines 123-141: one TextNode per chunk, in order
ChunksToNodes(cs) == [i \in 1..Len(cs) |-> [text |-> cs[i].content, id_ |-> cs[i].chunk_id]]

\* lines 79-90: the index after the nodes are added
IndexWith(ix, nodes) ==
    IF ~ix.built
    THEN [built |-> TRUE, nodes |-> nodes]
    ELSE [built |-> TRUE, nodes |-> ix.nodes \o nodes]

IngestInit ==
    /\ chunk_size \in 1..MaxSize
    /\ chunk_overlap \in 0..MaxSize
    /\ entry \in {"add_document", "add_documents_batch"}
    /\ documents \in UNION {[1..k -> Docs] : k \in 0..MaxBatch}
    /\ entry = "add_document" => Len(documents) = 1
    /\ doc_pos = 1
    /\ doc_ids = <<>>
    /\ error_log = <<>>
    /\ index = [built |-> FALSE, nodes |-> <<>>]
    /\ ipc = "call"
    /\ text = <<>>
    /\ document_id = ""
    /\ start = 0
    /\ chunk_counter = 0
    /\ chunks = <<>>
    /\ cpc = "idle"
    /\ SectionIdle
    /\ RouterIdle
    /\ FusionIdle
    /\ AnswerIdle
    /\ LaterIdle

\* line 108: add_documents_batch starts its list
AddDocumentsBatchStart ==
    /\ ipc = "call"
    /\ entry = "add_documents_batch"
    /\ doc_ids' = <<>>
    /\ ipc' = "batch_loop"
    /\ UNCHANGED <<entry, documents, doc_pos, error_log, index>>
    /\ UNCHANGED chunkVars
    /\ UNCHANGED notIngest

\* lines 66-73 (from lines 109-116 in a batch): add_document calls chunk_text
\* with the configured chunk size and overlap
AddDocumentCall ==
    /\ \/ entry = "add_document" /\ ipc = "call"
       \/ entry = "add_documents_batch" /\ ipc = "batch_loop" /\ doc_pos <= Len(documents)
    /\ text' = documents[doc_pos].content
    /\ document_id' = DocId(documents[doc_pos])
    /\ start' = 0
    /\ chunk_counter' = 0
    /\ chunks' = <<>>
    /\ cpc' = "call"
    /\ ipc' = "chunking"
    /\ UNCHANGED <<chunk_size, chunk_overlap>>
    /\ UNCHANGED <<entry, documents, doc_pos, doc_ids, error_log, index>>
    /\ UNCHANGED notIngest

\* what add_document's caller sees when it returns document_id: the direct
\* caller gets the value; the batch appends it (line 117) and goes on
AddDocumentReturns ==
    IF entry = "add_document"
    THEN /\ ipc' = "returned"
         /\ doc_ids' = <<document_id>>
         /\ UNCHANGED <<doc_pos, error_log>>
    ELSE /\ ipc' = "batch_loop"
         /\ doc_ids' = Append(doc_ids, document_id)
         /\ doc_pos' = doc_pos + 1
         /\ UNCHANGED error_log

\* what happens to an exception leaving add_document: the direct caller gets
\* it; the batch catches it, logs it and goes on (lines 118-119)
AddDocumentRaises ==
    IF entry = "add_document"
    THEN /\ ipc' = "raised"
         /\ UNCHANGED <<doc_pos, doc_ids, error_log>>
    ELSE /\ ipc' = "batch_loop"
         /\ error_log' = Append(error_log, documents[doc_pos].source)
         /\ doc_pos' = doc_pos + 1
         /\ UNCHANGED doc_ids

\* lines 75-93: chunk_text returned, the nodes are added to the index
AddDocumentIndex ==
    /\ ipc = "chunking"
    /\ cpc = "returned"
    /\ index' = IndexWith(index, ChunksToNodes(chunks))
    /\ AddDocumentReturns
    /\ cpc' = "idle"
    /\ UNCHANGED <<entry, documents>>
    /\ UNCHANGED <<text, chunk_size, chunk_overlap, document_id, start, chunk_counter, chunks>>
    /\ UNCHANGED notIngest

\* lines 84-90: building the index or inserting the nodes fails in the
\* embedding service or the vector store; add_document has no handler
AddDocumentIndexFails ==
    /\ ipc = "chunking"
    /\ cpc = "returned"
    /\ AddDocumentRaises
    /\ cpc' = "idle"
    /\ UNCHANGED <<entry, documents, index>>
    /\ UNCHANGED <<text, chunk_size, chunk_overlap, document_id, start, chunk_counter, chunks>>
    /\ UNCHANGED notIngest

\* lines 44-45 seen from add_document: chunk_text raised ValueError
AddDocumentChunkError ==
    /\ ipc = "chunking"
    /\ cpc = "raised"
    /\ AddDocumentRaises
    /\ cpc' = "idle"
    /\ UNCHANGED <<entry, documents, index>>
    /\ UNCHANGED <<text, chunk_size, chunk_overlap, document_id, start, chunk_counter, chunks>>
    /\ UNCHANGED notIngest

\* line 121: the for loop is over, doc_ids is returned
AddDocumentsBatchReturn ==
    /\ ipc = "batch_loop"
    /\ doc_pos > Len(documents)
    /\ ipc' = "returned"
    /\ UNCHANGED <<entry, documents, doc_pos, doc_ids, error_log, index>>
    /\ UNCHANGED chunkVars
    /\ UNCHANGED notIngest

IngestNext ==
    \/ AddDocumentsBatchStart
    \/ AddDocumentCall
    \/ ChunkTextCall
    \/ ChunkTextTest
    \/ ChunkTextWindow
    \/ ChunkTextReturn
    \/ AddDocumentIndex
    \/ AddDocumentIndexFails
    \/ AddDocumentChunkError
    \/ AddDocumentsBatchReturn

IngestSpec == IngestInit /\ [][IngestNext]_vars

\* C4: an invalid chunking configuration is fatal for ingestion: a call of
\* add_document or add_documents_batch that chunks a document under it ends by
\* raising to the caller, never by returning normally, and the index is not
\* changed.
C4_InvalidConfigFatal ==
    (chunk_overlap >= chunk_size /\ Len(documents) >= 1) =>
        /\ ipc # "returned"
        /\ ~index.built

(* -------------------- DocumentChunker.chunk_by_sections -------------- *)
\* longest text handed to chunk_by_sections
MaxSecLen == 7

SecAlphabet == {"a", "b", " ", "\n"}

\* the first 1-based position of "\n\n" in s, 0 when there is none
FirstBlankLine(s) ==
    LET hits == {i \in 1..(Len(s) - 1) : s[i] = "\n" /\ s[i + 1] = "\n"}
    IN  IF hits = {} THEN 0 ELSE CHOOSE i \in hits : \A j \in hits : i <= j

\* line 109: text.split('\n\n'), separators taken left to right
RECURSIVE SplitBlankLines(_)
SplitBlankLines(s) ==
    LET i == FirstBlankLine(s)
    IN  IF i = 0
        THEN <<s>>
        ELSE <<SubSeq(s, 1, i - 1)>> \o SplitBlankLines(SubSeq(s, i + 2, Len(s)))

\* line 121
SectionId(d, i) == d \o "_section_" \o ToString(i)

\* mutant of SectionIndex: a compacted count of the chunks emitted so far
SectionIndexCompact(idx, emitted) == emitted

\* lines 111, 119: the index enumerate() gives the paragraph
SectionIndex(idx, emitted) == idx

\* lines 114-123
SectionChunk(d, i, c) ==
    [content |-> c, chunk_id |-> SectionId(d, i), document_id |-> d, chunk_index |-> i]

SectionInit ==
    /\ text \in TextsOver(SecAlphabet, MaxSecLen)
    /\ document_id \in DocIds
    /\ paragraphs = <<>>
    /\ sec_idx = 0
    /\ sec_chunks = <<>>
    /\ spc = "call"
    /\ chunk_size = 1
    /\ chunk_overlap = 0
    /\ start = 0
    /\ chunk_counter = 0
    /\ chunks = <<>>
    /\ cpc = "idle"
    /\ IngestIdle
    /\ RouterIdle
    /\ FusionIdle
    /\ AnswerIdle
    /\ LaterIdle

\* lines 106-109
SectionsCall ==
    /\ spc = "call"
    /\ sec_chunks' = <<>>
    /\ paragraphs' = SplitBlankLines(text)
    /\ sec_idx' = 0
    /\ spc' = "loop"
    /\ UNCHANGED <<text, document_id>>
    /\ UNCHANGED notSection

\* lines 111-124: one iteration of the for loop
SectionsParagraph ==
    /\ spc = "loop"
    /\ sec_idx < Len(paragraphs)
    /\ LET para == Strip(paragraphs[sec_idx + 1])
           i == SectionIndex(sec_idx, Len(sec_chunks))
       IN  sec_chunks' = IF para # <<>>
                         THEN Append(sec_chunks, SectionChunk(document_id, i, para))
                         ELSE sec_chunks
    /\ sec_idx' = sec_idx + 1
    /\ UNCHANGED <<text, document_id, paragraphs, spc>>
    /\ UNCHANGED notSection

\* lines 126-127
SectionsReturn ==
    /\ spc = "loop"
    /\ sec_idx >= Len(paragraphs)
    /\ spc' = "returned"
    /\ UNCHANGED <<text, document_id, paragraphs, sec_idx, sec_chunks>>
    /\ UNCHANGED notSection

SectionNext == SectionsCall \/ SectionsParagraph \/ SectionsReturn

SectionSpec == SectionInit /\ [][SectionNext]_vars

\* s has "\n\n" somewhere
HasBlankLine(s) == \E i \in 1..(Len(s) - 1) : s[i] = "\n" /\ s[i + 1] = "\n"

RECURSIVE JoinBlankLines(_)
JoinBlankLines(ps) ==
    IF Len(ps) = 1 THEN ps[1] ELSE ps[1] \o <<"\n", "\n">> \o JoinBlankLines(Tail(ps))

\* ps is the split of t on "\n\n": the pieces joined by "\n\n" give t, no
\* piece holds a separator, and no separator starts inside the piece before it
IsBlankLineSplit(ps, t) ==
    /\ Len(ps) >= 1
    /\ JoinBlankLines(ps) = t
    /\ \A k \in 1..Len(ps) : ~HasBlankLine(ps[k])
    /\ \A k \in 1..(Len(ps) - 1) : ps[k] = <<>> \/ ps[k][Len(ps[k])] # "\n"

\* the characters of s without its leading and trailing whitespace
Trimmed(s) ==
    LET keep == {i \in 1..Len(s) : s[i] \notin Whitespace}
    IN  IF keep = {}
        THEN <<>>
        ELSE SubSeq(s, CHOOSE i \in keep : \A j \in keep : i <= j,
                       CHOOSE i \in keep : \A j \in keep : i >= j)

\* C6: chunk_by_sections returns exactly one chunk per paragraph of the split
\* on "\n\n" that is non-empty after trimming, in paragraph order, none for an
\* empty one; the chunk of the paragraph at position i has chunk_index i,
\* chunk_id "{document_id}_section_{i}" and the trimmed paragraph as content.
C6_OneChunkPerParagraph ==
    spc = "returned" =>
        LET nonEmpty == {i \in 0..(Len(paragraphs) - 1) : Trimmed(paragraphs[i + 1]) # <<>>}
        IN  /\ IsBlankLineSplit(paragraphs, text)
            /\ Len(sec_chunks) = Cardinality(nonEmpty)
            /\ \A k \in 1..Len(sec_chunks) :
                  /\ sec_chunks[k].chunk_index \in nonEmpty
                  /\ sec_chunks[k].content = Trimmed(paragraphs[sec_chunks[k].chunk_index + 1])
                  /\ sec_chunks[k].chunk_id =
                        document_id \o "_section_" \o ToString(sec_chunks[k].chunk_index)
            /\ \A k \in 1..(Len(sec_chunks) - 1) :
                  sec_chunks[k].chunk_index < sec_chunks[k + 1].chunk_index

\* C6 witness: three non-empty paragraphs give three chunks with their texts
C6_Witness ==
    /\ spc = "returned"
    /\ text = <<"a", "\n", "\n", "b", "\n", "\n", "a">>
    /\ Len(sec_chunks) = 3
    /\ sec_chunks[1].content = <<"a">>
    /\ sec_chunks[2].content = <<"b">>
    /\ sec_chunks[3].content = <<"a">>

\* C6 witness of the skipped paragraph: the chunk keeps the paragraph position
C6_WitnessSkip ==
    /\ spc = "returned"
    /\ Len(paragraphs) = 3
    /\ Len(sec_chunks) = 2
    /\ sec_chunks[2].chunk_index = 2

\* C7: the chunks returned by one chunk_by_sections pass have chunk_index
\* values exactly 0..n-1, strictly increasing and contiguous from 0, and no
\* chunk has empty content.
C7_SectionIndicesContiguous ==
    spc = "returned" =>
        \A k \in 1..Len(sec_chunks) :
            /\ sec_chunks[k].chunk_index = k - 1
            /\ sec_chunks[k].content # <<>>

(* --------------------------- RouterAgent.decide ----------------------- *)
\* most words in a query
MaxWords == 2

\* str.lower() on one character
LowerChar(c) ==
    CASE c = "A" -> "a"
      [] c = "B" -> "b"
      [] c = "C" -> "c"
      [] c = "D" -> "d"
      [] c = "E" -> "e"
      [] c = "F" -> "f"
      [] c = "G" -> "g"
      [] c = "H" -> "h"
      [] c = "I" -> "i"
      [] c = "J" -> "j"
      [] c = "K" -> "k"
      [] c = "L" -> "l"
      [] c = "M" -> "m"
      [] c = "N" -> "n"
      [] c = "O" -> "o"
      [] c = "P" -> "p"
      [] c = "Q" -> "q"
      [] c = "R" -> "r"
      [] c = "S" -> "s"
      [] c = "T" -> "t"
      [] c = "U" -> "u"
      [] c = "V" -> "v"
      [] c = "W" -> "w"
      [] c = "X" -> "x"
      [] c = "Y" -> "y"
      [] c = "Z" -> "z"
      [] OTHER -> c

\* lines 45, 52: query.lower()
Lower(s) == [i \in 1..Len(s) |-> LowerChar(s[i])]

Digits == {"0", "1", "2", "3", "4", "5", "6", "7", "8", "9"}

\* a literal as a pattern: one set of admissible characters per position
Lit(w) == [i \in 1..Len(w) |-> {w[i]}]

\* lines 22-31: each keyword is the set of the patterns its regex admits
WEB_KEYWORDS == <<
    {Lit(<<"l", "a", "t", "e", "s", "t">>)},
    {Lit(<<"r", "e", "c", "e", "n", "t">>)},
    {Lit(<<"2", "0", "2">>) \o <<Digits>>},
    {Lit(<<"r", "e", "s", "e", "a", "r", "c", "h">>)},
    {Lit(<<"r", "e", "p", "o", "r", "t">>)},
    {Lit(<<"n", "e", "w", "s">>)},
    {Lit(<<"t", "r", "e", "n", "d", "s">>)},
    {Lit(<<"s", "t", "a", "t", "e">>), Lit(<<"s", "t", "a", "t", "i", "s", "t", "i", "c", "s">>)}
>>

\* lines 33-39
INTERNAL_KEYWORDS == <<
    {Lit(<<"o", "u", "r">>)},
    {Lit(<<"i", "n", "t", "e", "r", "n", "a", "l">>)},
    {Lit(<<"c", "o", "m", "p", "a", "n", "y">>)},
    {Lit(<<"c", "l", "i", "e", "n", "t">>)},
    {Lit(<<"c", "o", "n", "f", "i", "d", "e", "n", "t", "i", "a", "l">>)}
>>

\* pattern pat occurs in q at some position
PatternOccurs(pat, q) ==
    \E i \in 1..(Len(q) - Len(pat) + 1) : \A k \in 1..Len(pat) : q[i + k - 1] \in pat[k]

\* re.search(kw, q)
ReSearch(kw, q) == \E pat \in kw : PatternOccurs(pat, q)

\* mutant of LooksLikeWebQuery: the query is searched without lowering it
LooksLikeWebQueryCased(q) ==
    \E n \in 1..Len(WEB_KEYWORDS) : ReSearch(WEB_KEYWORDS[n], q)

\* lines 44-49
LooksLikeWebQuery(q) ==
    \E n \in 1..Len(WEB_KEYWORDS) : ReSearch(WEB_KEYWORDS[n], Lower(q))

\* lines 51-56
LooksLikeInternalOnly(q) ==
    \E n \in 1..Len(INTERNAL_KEYWORDS) : ReSearch(INTERNAL_KEYWORDS[n], Lower(q))

\* dict.get(key, default)
DictGet(m, key, default) ==
    IF \E p \in m : p[1] = key THEN (CHOOSE p \in m : p[1] = key)[2] ELSE default

\* mutant of HasDocs: documents are assumed present when the flag is absent
HasDocsDefaultTrue(m) == DictGet(m, "has_uploaded_docs", TRUE)

\* line 69
HasDocs(m) == DictGet(m, "has_uploaded_docs", FALSE)

\* mutant of Decision: the reason is dropped
DecisionNoReason(docs, web, reason) == [use_documents |-> docs, use_web |-> web, reason |-> ""]

\* lines 73-86: the dict every return of decide builds
Decision(docs, web, reason) == [use_documents |-> docs, use_web |-> web, reason |-> reason]

\* mutant of Decide: the web-relevance test comes before the internal-scope test
DecideWebFirst(q, m) ==
    LET has_docs == HasDocs(m)
        web_needed == LooksLikeWebQuery(q)
    IN  IF has_docs /\ web_needed
        THEN Decision(TRUE, TRUE, "Combined: internal + recent/external")
        ELSE IF has_docs /\ LooksLikeInternalOnly(q)
        THEN Decision(TRUE, FALSE, "Internal scope detected")
        ELSE IF has_docs /\ ~web_needed
        THEN Decision(TRUE, FALSE, "Documents sufficient")
        ELSE IF ~has_docs /\ web_needed
        THEN Decision(FALSE, TRUE, "No docs, web search required")
        ELSE Decision(has_docs, TRUE, "Default to both when uncertain")

\* mutant of Decide: without documents the web is used only for a web-relevant query
DecideNoDefaultWeb(q, m) ==
    LET has_docs == HasDocs(m)
        web_needed == LooksLikeWebQuery(q)
    IN  IF has_docs /\ LooksLikeInternalOnly(q)
        THEN Decision(TRUE, FALSE, "Internal scope detected")
        ELSE IF has_docs /\ web_needed
        THEN Decision(TRUE, TRUE, "Combined: internal + recent/external")
        ELSE IF has_docs /\ ~web_needed
        THEN Decision(TRUE, FALSE, "Documents sufficient")
        ELSE IF ~has_docs /\ web_needed
        THEN Decision(FALSE, TRUE, "No docs, web search required")
        ELSE Decision(has_docs, FALSE, "Default to both when uncertain")

\* lines 69-86
Decide(q, m) ==
    LET has_docs == HasDocs(m)
        web_needed == LooksLikeWebQuery(q)
    IN  IF has_docs /\ LooksLikeInternalOnly(q)
        THEN Decision(TRUE, FALSE, "Internal scope detected")
        ELSE IF has_docs /\ web_needed
        THEN Decision(TRUE, TRUE, "Combined: internal + recent/external")
        ELSE IF has_docs /\ ~web_needed
        THEN Decision(TRUE, FALSE, "Documents sufficient")
        ELSE IF ~has_docs /\ web_needed
        THEN Decision(FALSE, TRUE, "No docs, web search required")
        ELSE Decision(has_docs, TRUE, "Default to both when uncertain")

\* the words queries are made of: one per keyword (some capitalised), a word
\* that holds "our" inside, and words that match nothing
Vocabulary == {
    <<"O", "u", "r">>,
    <<"i", "n", "t", "e", "r", "n", "a", "l">>,
    <<"c", "o", "m", "p", "a", "n", "y">>,
    <<"C", "l", "i", "e", "n", "t">>,
    <<"c", "o", "n", "f", "i", "d", "e", "n", "t", "i", "a", "l">>,
    <<"l", "a", "t", "e", "s", "t">>,
    <<"R", "e", "c", "e", "n", "t">>,
    <<"2", "0", "2", "5">>,
    <<"r", "e", "s", "e", "a", "r", "c", "h">>,
    <<"r", "e", "p", "o", "r", "t">>,
    <<"n", "e", "w", "s">>,
    <<"t", "r", "e", "n", "d", "s">>,
    <<"S", "t", "a", "t", "e">>,
    <<"s", "t", "a", "t", "i", "s", "t", "i", "c", "s">>,
    <<"S", "L", "A", "s">>,
    <<"f", "l", "o", "u", "r">>,
    <<"s", "h", "o", "w">>
}

RECURSIVE JoinWords(_)
JoinWords(ws) ==
    IF ws = <<>> THEN <<>>
    ELSE IF Len(ws) = 1 THEN ws[1]
    ELSE ws[1] \o <<" ">> \o JoinWords(Tail(ws))

Queries == {JoinWords(ws) : ws \in UNION {[1..k -> Vocabulary] : k \in 0..MaxWords}}

Metadatas == {{}, {<<"has_uploaded_docs", TRUE>>}, {<<"has_uploaded_docs", FALSE>>}}

RouterInit ==
    /\ query \in Queries
    /\ metadata \in Metadatas
    /\ decision = [use_documents |-> FALSE, use_web |-> FALSE, reason |-> ""]
    /\ rpc = "call"
    /\ text = <<>>
    /\ chunk_size = 1
    /\ chunk_overlap = 0
    /\ document_id = ""
    /\ start = 0
    /\ chunk_counter = 0
    /\ chunks = <<>>
    /\ cpc = "idle"
    /\ IngestIdle
    /\ SectionIdle
    /\ FusionIdle
    /\ AnswerIdle
    /\ LaterIdle

\* lines 58-86: decide returns its decision
RouterDecide ==
    /\ rpc = "call"
    /\ decision' = Decide(query, metadata)
    /\ rpc' = "returned"
    /\ UNCHANGED <<query, metadata>>
    /\ UNCHANGED notRouter

RouterNext == RouterDecide

RouterSpec == RouterInit /\ [][RouterNext]_vars

\* w occurs in q as a substring once both are lowered
ContainsWord(q, w) ==
    \E i \in 1..(Len(q) - Len(w) + 1) :
        \A k \in 1..Len(w) : LowerChar(q[i + k - 1]) = w[k]

\* the query matches an internal-scope keyword
MatchesInternal(q) ==
    \/ ContainsWord(q, <<"o", "u", "r">>)
    \/ ContainsWord(q, <<"i", "n", "t", "e", "r", "n", "a", "l">>)
    \/ ContainsWord(q, <<"c", "o", "m", "p", "a", "n", "y">>)
    \/ ContainsWord(q, <<"c", "l", "i", "e", "n", "t">>)
    \/ ContainsWord(q, <<"c", "o", "n", "f", "i", "d", "e", "n", "t", "i", "a", "l">>)

\* C8: for a query that matches an internal-scope keyword, decide with
\* has_uploaded_docs = true returns use_documents = true and use_web = false,
\* also when the query matches a web-relevance keyword.
C8_InternalPrefersDocuments ==
    (rpc = "returned" /\ <<"has_uploaded_docs", TRUE>> \in metadata /\ MatchesInternal(query)) =>
        decision.use_documents /\ ~decision.use_web

\* C8 witness: "Our report" with documents, both keyword classes match
C8_Witness ==
    /\ rpc = "returned"
    /\ <<"has_uploaded_docs", TRUE>> \in metadata
    /\ query = <<"O", "u", "r", " ", "r", "e", "p", "o", "r", "t">>
    /\ ContainsWord(query, <<"r", "e", "p", "o", "r", "t">>)
    /\ decision.use_documents
    /\ ~decision.use_web

\* C9: use_documents always equals the has-documents flag: true with
\* has_uploaded_docs = true, false with it false or absent.
C9_UseDocumentsIsFlag ==
    rpc = "returned" => (decision.use_documents <=> <<"has_uploaded_docs", TRUE>> \in metadata)

\* C9 witness: with the flag set, documents are used for a query that matches
\* no keyword of either class
C9_Witness ==
    /\ rpc = "returned"
    /\ metadata = {<<"has_uploaded_docs", TRUE>>}
    /\ query = <<"S", "L", "A", "s">>
    /\ decision.use_documents

\* C10: without documents decide returns use_web = true whatever the query
\* matches, so never a decision with both sources off.
C10_NoDocsUsesWeb ==
    (rpc = "returned" /\ <<"has_uploaded_docs", TRUE>> \notin metadata) =>
        decision.use_web

\* C10 witness: no documents and a query that matches no web keyword
C10_Witness ==
    /\ rpc = "returned"
    /\ metadata = {}
    /\ query = <<"O", "u", "r", " ", "S", "L", "A", "s">>
    /\ decision.use_web
    /\ ~decision.use_documents

\* the query matches a web-relevance keyword
MatchesWeb(q) ==
    \/ ContainsWord(q, <<"l", "a", "t", "e", "s", "t">>)
    \/ ContainsWord(q, <<"r", "e", "c", "e", "n", "t">>)
    \/ \E d \in {"0", "1", "2", "3", "4", "5", "6", "7", "8", "9"} :
          ContainsWord(q, <<"2", "0", "2", d>>)
    \/ ContainsWord(q, <<"r", "e", "s", "e", "a", "r", "c", "h">>)
    \/ ContainsWord(q, <<"r", "e", "p", "o", "r", "t">>)
    \/ ContainsWord(q, <<"n", "e", "w", "s">>)
    \/ ContainsWord(q, <<"t", "r", "e", "n", "d", "s">>)
    \/ ContainsWord(q, <<"s", "t", "a", "t", "e">>)
    \/ ContainsWord(q, <<"s", "t", "a", "t", "i", "s", "t", "i", "c", "s">>)

\* C11: with documents available and a query that matches no internal-scope
\* keyword, use_web is true exactly when the query matches a web-relevance
\* keyword: then the reason is "Combined: internal + recent/external",
\* otherwise documents alone are used with reason "Documents sufficient".
C11_WebExactlyWhenWebKeyword ==
    (rpc = "returned" /\ <<"has_uploaded_docs", TRUE>> \in metadata /\ ~MatchesInternal(query)) =>
        /\ decision.use_documents
        /\ decision.use_web <=> MatchesWeb(query)
        /\ MatchesWeb(query) => decision.reason = "Combined: internal + recent/external"
        /\ ~MatchesWeb(query) => decision.reason = "Documents sufficient"

\* C11 witness: with documents, a capitalised web keyword and no internal
\* keyword give the combined decision
C11_Witness ==
    /\ rpc = "returned"
    /\ metadata = {<<"has_uploaded_docs", TRUE>>}
    /\ query = <<"R", "e", "c", "e", "n", "t", " ", "S", "L", "A", "s">>
    /\ decision.use_web
    /\ decision.reason = "Combined: internal + recent/external"

\* some query of qs and some metadata make decide return the combination
\* (docs, web)
Returnable(qs, docs, web) ==
    \E q \in qs, m \in Metadatas :
        /\ Decide(q, m).use_documents = docs
        /\ Decide(q, m).use_web = web

\* two queries that are enough to obtain every combination decide can return
SampleQueries == {<<"n", "e", "w", "s">>, <<"S", "L", "A", "s">>}

\* C12 as amended: decide returns exactly three combinations of
\* (use_documents, use_web): (true, true), (true, false) and (false, true);
\* (false, false) is never returned, and every decision has a non-empty reason.
C12_ThreeOutcomes ==
    /\ SampleQueries \subseteq Queries
    /\ Returnable(SampleQueries, TRUE, TRUE)
    /\ Returnable(SampleQueries, TRUE, FALSE)
    /\ Returnable(SampleQueries, FALSE, TRUE)
    /\ rpc = "returned" =>
          /\ decision.use_documents \/ decision.use_web
          /\ decision.reason # ""

\* C12 witness: the web-only decision, returned with its reason
C12_Witness ==
    /\ rpc = "returned"
    /\ ~decision.use_documents
    /\ decision.use_web
    /\ decision.reason = "No docs, web search required"

\* C12 as stated: all four combinations of (use_documents, use_web) are
\* outcomes of decide, and every decision has a non-empty reason.
C12_AllFourOutcomes ==
    /\ \A docs, web \in BOOLEAN : Returnable(Queries, docs, web)
    /\ rpc = "returned" => decision.reason # ""

(* ------------------------- FusionAgent.fuse --------------------------- *)
(* src/agents/fusion_agent.py.  A dict entry is a record [st, v]: st is    *)
(* "absent" (no such key), "none" (the key holds None) or "value".  Scores *)
(* and confidences are counted in thousandths, so 1.2 is 1200.             *)

\* most hits handed to one call of fuse, both lists together
MaxHits == 3

\* line 68: the 1.0 of min(1.0, ...), and the unit of every score
One == 1000
\* line 25: source_priority['document']
DocPriority == 1200
\* line 26: source_priority['internet']
WebPriority == 1000
\* line 61: the score of a document hit without one
DefaultDocScore == 600
\* line 79: the confidence of a web hit without one
DefaultWebScore == 500
\* line 57: characters of the snippet that make the key
KeyLen == 200
\* line 30: characters of the snippet that are kept
SnippetCap == 500
\* line 104: characters of a claim shown in the summary prompt
PromptClaimCap == 300
\* line 102: citations shown in the summary prompt
PromptCitations == 10

TextVal(t) == [st |-> "value", v |-> t]

NoneText == [st |-> "none", v |-> <<>>]

AbsentText == [st |-> "absent", v |-> <<>>]

NumVal(n) == [st |-> "value", v |-> n]

NoneNum == [st |-> "none", v |-> 0]

AbsentNum == [st |-> "absent", v |-> 0]

\* dict.get(key, default): an entry that holds None is returned as None
Get(field, default) == IF field.st = "absent" THEN default ELSE field

\* dict.get(key): None when the key is absent
GetText(field) == Get(field, NoneText)

\* bool(x) of a str or None
TruthyText(x) == x.st = "value" /\ x.v # <<>>

\* bool(x) of a number or None
TruthyNum(x) == x.st = "value" /\ x.v # 0

\* s[:n]
Prefix(s, n) == SubSeq(s, 1, Min(n, Len(s)))

\* str.split(): the maximal runs of non-whitespace characters
RECURSIVE SplitWhitespace(_)
SplitWhitespace(t) ==
    LET s == LStrip(t)
    IN  IF s = <<>> THEN <<>>
        ELSE LET stops == {i \in 1..Len(s) : s[i] \in Whitespace}
                 n == IF stops = {} THEN Len(s) + 1
                      ELSE CHOOSE i \in stops : \A j \in stops : i <= j
             IN  <<SubSeq(s, 1, n - 1)>> \o SplitWhitespace(SubSeq(s, n, Len(s)))

\* sep.join(parts)
RECURSIVE Join(_, _)
Join(sep, parts) ==
    IF parts = <<>> THEN <<>>
    ELSE IF Len(parts) = 1 THEN parts[1]
    ELSE parts[1] \o sep \o Join(sep, Tail(parts))

\* line 30: _normalize_snippet
NormalizeSnippet(t) == Prefix(Join(<<" ">>, SplitWhitespace(Strip(t))), SnippetCap)

\* mutant of DedupKey: the whole snippet is the key
DedupKeyWhole(snippet) == snippet

\* lines 57, 75
DedupKey(snippet) == Prefix(snippet, KeyLen)

\* lines 68, 85: min(1.0, score * priority)
Confidence(score, priority) == Min(One, (score * priority) \div One)

\* lines 32-39: _make_citation
MakeCitation(claim, source_type, source, url, confidence) ==
    [claim |-> claim, source_type |-> source_type, source |-> source, url |-> url,
     confidence |-> confidence]

DOCUMENT == <<"d", "o", "c", "u", "m", "e", "n", "t">>

INTERNET == <<"i", "n", "t", "e", "r", "n", "e", "t">>

INTERNAL == <<"i", "n", "t", "e", "r", "n", "a", "l">>

\* line 62, 67: d.get('metadata', {})
MetadataOf(d) ==
    IF d.metadata.st = "absent"
    THEN [st |-> "value", source |-> AbsentText, original_path |-> AbsentText]
    ELSE d.metadata

\* line 56: d.get('content', d.get('text', ''))
DocSnippet(d) == Get(d.content, Get(d.text, TextVal(<<>>)))

\* line 61: d.get('score') or 0.6
DocScore(d) == IF TruthyNum(d.score) THEN d.score.v ELSE DefaultDocScore

\* line 62: d.get('source', d.get('metadata', {}).get('source', 'internal'))
DocSource(d) == Get(d.source, Get(MetadataOf(d).source, TextVal(INTERNAL)))

\* line 67: d.get('metadata', {}).get('original_path') or None
DocUrl(d) ==
    IF TruthyText(MetadataOf(d).original_path) THEN MetadataOf(d).original_path ELSE NoneText

\* lines 55-70: what the loop makes of a document hit; failing is set when
\* building the citation raises
DocCandidate(d) ==
    [snippet |-> DocSnippet(d),
     failing |-> d.metadata.st = "none",
     source_type |-> DOCUMENT,
     source |-> DocSource(d),
     url |-> DocUrl(d),
     confidence |-> Confidence(DocScore(d), DocPriority)]

\* line 74: w.get('snippet', w.get('title', ''))
WebSnippet(w) == Get(w.snippet, Get(w.title, TextVal(<<>>)))

\* line 79: w.get('confidence', 0.5)
WebScore(w) == Get(w.confidence, NumVal(DefaultWebScore))

\* line 83: w.get('title') or w.get('url')
WebSource(w) == IF TruthyText(w.title) THEN w.title ELSE GetText(w.url)

\* line 84: w.get('url')
WebUrl(w) == GetText(w.url)

\* lines 73-87: what the loop makes of a web hit; None * 1.0 raises
WebCandidate(w) ==
    [snippet |-> WebSnippet(w),
     failing |-> WebScore(w).st = "none",
     source_type |-> INTERNET,
     source |-> WebSource(w),
     url |-> WebUrl(w),
     confidence |-> Confidence(WebScore(w).v, WebPriority)]

\* mutant of ListOrEmpty: None is iterated as it is, which raises
ListOrEmptyStrict(results) == [raises |-> results.none, hits |-> results.hits]

\* lines 55, 73: doc_results or [], web_results or []
ListOrEmpty(results) ==
    [raises |-> FALSE, hits |-> IF results.none THEN <<>> ELSE results.hits]

\* lines 55, 73: the document loop, then the web loop
ProcessingOrder(docs, webs) ==
    [i \in 1..Len(docs) |-> DocCandidate(docs[i])] \o [i \in 1..Len(webs) |-> WebCandidate(webs[i])]

\* lines 55-87: the two loops from candidate k on, with the list and the keys so far
RECURSIVE MergeFrom(_, _, _, _)
MergeFrom(cands, k, list, seen) ==
    IF k > Len(cands) THEN [raised |-> FALSE, merged |-> list]
    ELSE IF cands[k].snippet.st # "value" THEN [raised |-> TRUE, merged |-> list]
    ELSE LET snippet == NormalizeSnippet(cands[k].snippet.v)
             key == DedupKey(snippet)
         IN  IF key \in seen THEN MergeFrom(cands, k + 1, list, seen)
             ELSE IF cands[k].failing THEN [raised |-> TRUE, merged |-> list]
             ELSE MergeFrom(cands, k + 1,
                            Append(list, MakeCitation(snippet, cands[k].source_type,
                                                      cands[k].source, cands[k].url,
                                                      cands[k].confidence)),
                            seen \cup {key})

\* mutant of InsertByConfidence: a citation goes before those of equal confidence
InsertBeforeEqual(sorted, c) ==
    LET Higher(x) == x.confidence > c.confidence
        NotHigher(x) == x.confidence <= c.confidence
    IN  SelectSeq(sorted, Higher) \o <<c>> \o SelectSeq(sorted, NotHigher)

\* line 90: where a stable descending sort puts c among those before it
InsertByConfidence(sorted, c) ==
    LET NotLower(x) == x.confidence >= c.confidence
        Lower_(x) == x.confidence < c.confidence
    IN  SelectSeq(sorted, NotLower) \o <<c>> \o SelectSeq(sorted, Lower_)

\* line 90: sorted(merged, key=lambda x: x['confidence'], reverse=True)
RECURSIVE SortedByConfidence(_)
SortedByConfidence(list) ==
    IF list = <<>> THEN <<>>
    ELSE InsertByConfidence(SortedByConfidence(SubSeq(list, 1, Len(list) - 1)), list[Len(list)])

\* lines 100-106: _build_summary_prompt, one record per citation line
BuildSummaryPrompt(citations) ==
    [header |-> "Synthesize the following evidence into a concise, grounded answer with inline citations:",
     lines |-> [i \in 1..Min(PromptCitations, Len(citations)) |->
                   [index |-> i,
                    source_type |-> citations[i].source_type,
                    claim |-> Prefix(citations[i].claim, PromptClaimCap),
                    source |-> citations[i].source]],
     footer |-> "\nProvide a short answer (3-5 sentences) and list the sources by number."]

\* n times the character c
Rep(c, n) == [i \in 1..n |-> c]

ALPHA == <<"a", "l", "p", "h", "a">>

BETA == <<"b", "e", "t", "a">>

\* a snippet longer than SnippetCap whose first KeyLen characters are all "a"
LongSnippet(c) == Rep("a", KeyLen) \o <<c>> \o Rep("b", SnippetCap - KeyLen)

\* a document hit as IndexBuilder.retrieve returns it (index_builder.py 178-183),
\* with the keys it may lack
DocHit(content, text_, score, source, metadata_) ==
    [content |-> content, text |-> text_, score |-> score, source |-> source,
     metadata |-> metadata_]

MetadataVal(source, original_path) ==
    [st |-> "value", source |-> source, original_path |-> original_path]

NoMetadata == [st |-> "absent", source |-> AbsentText, original_path |-> AbsentText]

\* the document hits fuse is tried with: a plain one, one to be normalised with
\* no score and its source in the metadata, two long ones that differ after
\* the key, one with 'text' for 'content' and score 0, one with a negative score
DocHits == {
    DocHit(TextVal(ALPHA), AbsentText, NumVal(500), TextVal(<<"a", ".", "t", "x", "t">>),
           MetadataVal(AbsentText, TextVal(<<"/", "d", "/", "a">>))),
    DocHit(TextVal(<<" ", " ">> \o ALPHA \o <<" ", "\n", " ">> \o BETA \o <<" ">>), AbsentText,
           NoneNum, AbsentText, MetadataVal(TextVal(<<"b", ".", "t", "x", "t">>), TextVal(<<>>))),
    DocHit(TextVal(LongSnippet("x")), AbsentText, NumVal(1000), TextVal(<<"c">>), NoMetadata),
    DocHit(TextVal(Rep("a", KeyLen) \o <<"y">>), AbsentText, NumVal(250), TextVal(<<"d">>),
           NoMetadata),
    DocHit(AbsentText, TextVal(ALPHA), NumVal(0), AbsentText, NoMetadata),
    DocHit(TextVal(<<"g", "a", "m", "m", "a">>), AbsentText, NumVal(0 - 500), TextVal(<<"g">>),
           NoMetadata)
}

\* a web hit as WebSearchAgent.search returns it (web_agent.py 41-47, 63-69, 101-107)
WebHit(title, url, snippet, confidence) ==
    [title |-> title, url |-> url, snippet |-> snippet, confidence |-> confidence]

\* the web hits fuse is tried with: one that repeats a document snippet, a
\* plain one, one with only a title, the empty hit of _simple_http_search,
\* one without title that repeats a long key, one with a negative confidence,
\* one whose snippet is None
WebHits == {
    WebHit(TextVal(<<"T", "1">>), TextVal(<<"u", "1">>), TextVal(ALPHA), NumVal(800)),
    WebHit(TextVal(<<"T", "2">>), TextVal(<<"u", "2">>), TextVal(<<"d", "e", "l", "t", "a">>),
           NumVal(600)),
    WebHit(TextVal(BETA), AbsentText, AbsentText, AbsentNum),
    WebHit(TextVal(<<>>), TextVal(<<>>), TextVal(<<>>), NumVal(500)),
    WebHit(NoneText, TextVal(<<"u", "5">>), TextVal(Rep("a", KeyLen) \o <<"z">>), NumVal(1500)),
    WebHit(TextVal(<<"T", "6">>), TextVal(<<"u", "6">>), TextVal(<<"e", "p", "s">>),
           NumVal(0 - 100)),
    WebHit(TextVal(<<"T", "7">>), TextVal(<<"u", "7">>), NoneText, NumVal(700))
}

\* None, or a list of at most n of the hits
ResultLists(hits, n) ==
    {[none |-> TRUE, hits |-> <<>>]} \cup
    {[none |-> FALSE, hits |-> h] : h \in UNION {[1..k -> hits] : k \in 0..n}}

\* lines 51-87: the merged list fuse reaches for its two arguments, or the
\* exception that ends it
FuseLoops(docs, webs) ==
    LET d == ListOrEmpty(docs)
        w == ListOrEmpty(webs)
    IN  IF d.raises \/ w.raises THEN [raised |-> TRUE, merged |-> <<>>]
        ELSE MergeFrom(ProcessingOrder(d.hits, w.hits), 1, <<>>, {})

\* lines 89-98: the dict fuse returns for a merged list
FuseResult(list) ==
    [evidence |-> SortedByConfidence(list),
     summary_prompt |-> BuildSummaryPrompt(SortedByConfidence(list))]

FusionInit ==
    /\ doc_results \in ResultLists(DocHits, MaxHits)
    /\ web_results \in ResultLists(WebHits, MaxHits)
    /\ Len(doc_results.hits) + Len(web_results.hits) <= MaxHits
    /\ merged = <<>>
    /\ fused = [evidence |-> <<>>, summary_prompt |-> [header |-> "", lines |-> <<>>, footer |-> ""]]
    /\ fpc = "call"
    /\ ChunkIdle
    /\ IngestIdle
    /\ SectionIdle
    /\ RouterIdle
    /\ AnswerIdle
    /\ LaterIdle

\* lines 41-98: fuse returns
FuseReturns ==
    /\ fpc = "call"
    /\ ~FuseLoops(doc_results, web_results).raised
    /\ merged' = FuseLoops(doc_results, web_results).merged
    /\ fused' = FuseResult(FuseLoops(doc_results, web_results).merged)
    /\ fpc' = "returned"
    /\ UNCHANGED <<doc_results, web_results>>
    /\ UNCHANGED notFusion

\* lines 56, 74, 85: a hit the loops cannot handle ends fuse with its exception
FuseRaises ==
    /\ fpc = "call"
    /\ FuseLoops(doc_results, web_results).raised
    /\ merged' = FuseLoops(doc_results, web_results).merged
    /\ fpc' = "raised"
    /\ UNCHANGED <<doc_results, web_results, fused>>
    /\ UNCHANGED notFusion

FusionNext == FuseReturns \/ FuseRaises

FusionSpec == FusionInit /\ [][FusionNext]_vars

\* a hit whose 'metadata' is None
NoneMetadata == [st |-> "none", source |-> AbsentText, original_path |-> AbsentText]

\* a document hit with each of 'score' and 'metadata' present, absent or None
OptionalDocHits ==
    {DocHit(TextVal(ALPHA), AbsentText, score, AbsentText, md) :
        score \in {NumVal(500), AbsentNum, NoneNum},
        md \in {MetadataVal(TextVal(<<"a">>), TextVal(<<"/", "a">>)), NoMetadata, NoneMetadata}}

\* a web hit with each of 'title', 'url', 'snippet' and 'confidence' present,
\* absent or None
OptionalWebHits ==
    {WebHit(title, url, snippet, confidence) :
        title \in {TextVal(<<"T">>), AbsentText, NoneText},
        url \in {TextVal(<<"u">>), AbsentText, NoneText},
        snippet \in {TextVal(<<"s">>), AbsentText, NoneText},
        confidence \in {NumVal(800), AbsentNum, NoneNum}}

\* the lists of at most one hit
UpToOne(hits) == {<<>>} \cup {<<h>> : h \in hits}

\* fuse is called with hits whose optional fields are present, absent or None
OptionalFieldsInit ==
    /\ doc_results \in {[none |-> FALSE, hits |-> h] : h \in UpToOne(OptionalDocHits)}
    /\ web_results \in {[none |-> FALSE, hits |-> h] : h \in UpToOne(OptionalWebHits)}
    /\ merged = <<>>
    /\ fused = [evidence |-> <<>>, summary_prompt |-> [header |-> "", lines |-> <<>>, footer |-> ""]]
    /\ fpc = "call"
    /\ ChunkIdle
    /\ IngestIdle
    /\ SectionIdle
    /\ RouterIdle
    /\ AnswerIdle
    /\ LaterIdle

OptionalFieldsSpec == OptionalFieldsInit /\ [][FusionNext]_vars

(* -------------------- AnswerAgent.generate_answer --------------------- *)
(* src/agents/answer_agent.py, called by Orchestrator.run_query            *)
(* (src/orchestration/graph.py 52-55) with what fuse returned.             *)

\* most hits handed to fuse before generate_answer, both lists together
MaxCited == 4

\* line 43: citations shown in the prompt
PromptLimit == 15
\* line 62: claims the fallback answer is made of
FallbackClaims == 3

UNKNOWN == <<"u", "n", "k", "n", "o", "w", "n">>

\* str(n) of a natural number
RECURSIVE DecimalChars(_)
DecimalChars(n) ==
    LET digit == <<"0", "1", "2", "3", "4", "5", "6", "7", "8", "9">>[(n % 10) + 1]
    IN  IF n < 10 THEN <<digit>> ELSE DecimalChars(n \div 10) \o <<digit>>

\* mutant of CitationSource: the source is printed as it is, None as nothing
CitationSourceRaw(c) == c.source.v

\* line 22: c.get('source') or c.get('url') or 'unknown'
CitationSource(c) ==
    IF TruthyText(c.source) THEN c.source.v
    ELSE IF TruthyText(c.url) THEN c.url.v
    ELSE UNKNOWN

\* line 24: f"[{i}] {src} ({stype})"
CitationLine(i, c) ==
    <<"[">> \o DecimalChars(i) \o <<"]", " ">> \o CitationSource(c) \o <<" ", "(">> \o
    c.source_type \o <<")">>

\* lines 19-25: _format_citations
FormatCitations(citations) ==
    Join(<<"\n">>, [i \in 1..Len(citations) |-> CitationLine(i, citations[i])])

\* lines 43-46: the evidence lines of the prompt
PromptLines(citations) ==
    [i \in 1..Min(PromptLimit, Len(citations)) |->
        [index |-> i, claim |-> citations[i].claim, source |-> citations[i].source]]

\* mutant of FallbackAnswer: the claims of all the citations are joined
FallbackAnswerAll(citations) ==
    Join(<<" ">>, [i \in 1..Len(citations) |-> citations[i].claim])

\* line 62: ' '.join([c.get('claim', '') for c in citations[:3]])
FallbackAnswer(citations) ==
    Join(<<" ">>, [i \in 1..Min(FallbackClaims, Len(citations)) |-> citations[i].claim])

\* the texts llm.chat returns when it returns
Responses == {<<"O", "K", " ", "[", "1", "]">>, <<>>}

\* the document hits of the runs that end in generate_answer: with a source,
\* with none anywhere, with an empty content and a source of None
AnswerDocHits == {
    DocHit(TextVal(ALPHA), AbsentText, NumVal(500), TextVal(<<"a", ".", "t", "x", "t">>),
           MetadataVal(AbsentText, TextVal(<<"/", "d", "/", "a">>))),
    DocHit(TextVal(BETA), AbsentText, NoneNum, AbsentText, NoMetadata),
    DocHit(TextVal(<<>>), AbsentText, NumVal(750), NoneText, NoMetadata)
}

\* the web hits of those runs: a plain one, the empty hit of
\* _simple_http_search, one whose title is None, one with a title of two
\* lines, one whose snippet is None
AnswerWebHits == {
    WebHit(TextVal(<<"T", "1">>), TextVal(<<"u", "1">>), TextVal(<<"d", "e", "l", "t", "a">>),
           NumVal(800)),
    WebHit(TextVal(<<>>), TextVal(<<>>), TextVal(<<>>), NumVal(500)),
    WebHit(NoneText, TextVal(<<"u", "3">>), TextVal(<<"e", "p", "s">>), NumVal(700)),
    WebHit(TextVal(<<"T", "\n", "4">>), TextVal(<<"u", "4">>), TextVal(<<"z", "e", "t", "a">>),
           NumVal(600)),
    WebHit(TextVal(<<"T", "5">>), TextVal(<<"u", "5">>), NoneText, NumVal(700))
}

\* one hit more than the prompt shows, each with its own snippet and score
ManyWebHits ==
    [none |-> FALSE,
     hits |-> [i \in 1..(PromptLimit + 1) |->
                  WebHit(TextVal(<<"t">> \o DecimalChars(i)), TextVal(<<"u">> \o DecimalChars(i)),
                         TextVal(<<"s">> \o DecimalChars(i)), NumVal(900 - (10 * i)))]]

AnswerInit ==
    /\ doc_results \in ResultLists(AnswerDocHits, MaxCited)
    /\ web_results \in ResultLists(AnswerWebHits, MaxCited) \cup {ManyWebHits}
    /\ \/ Len(doc_results.hits) + Len(web_results.hits) <= MaxCited
       \/ doc_results.hits = <<>> /\ web_results = ManyWebHits
    /\ merged = <<>>
    /\ fused = [evidence |-> <<>>, summary_prompt |-> [header |-> "", lines |-> <<>>, footer |-> ""]]
    /\ fpc = "call"
    /\ ChunkIdle
    /\ IngestIdle
    /\ SectionIdle
    /\ RouterIdle
    /\ AnswerIdle
    /\ LaterIdle

\* lines 37-58: llm.chat returns resp and generate_answer returns it as the answer
GenerateAnswerReturns ==
    /\ fpc = "returned"
    /\ apc = "idle"
    /\ \E resp \in Responses :
          /\ llm_reply' = [raises |-> FALSE, text |-> resp]
          /\ final' = [answer |-> resp, citations |-> fused.evidence,
                       sources_text |-> FormatCitations(fused.evidence)]
    /\ llm_prompt' = PromptLines(fused.evidence)
    /\ apc' = "returned"
    /\ UNCHANGED notAnswer

\* lines 37-56, 59-64: llm.chat raises and generate_answer returns the fallback
GenerateAnswerFallback ==
    /\ fpc = "returned"
    /\ apc = "idle"
    /\ llm_reply' = [raises |-> TRUE, text |-> <<>>]
    /\ final' = [answer |-> FallbackAnswer(fused.evidence), citations |-> fused.evidence,
                 sources_text |-> FormatCitations(fused.evidence)]
    /\ llm_prompt' = PromptLines(fused.evidence)
    /\ apc' = "returned"
    /\ UNCHANGED notAnswer

AnswerNext == FuseReturns \/ FuseRaises \/ GenerateAnswerReturns \/ GenerateAnswerFallback

AnswerSpec == AnswerInit /\ [][AnswerNext]_vars

(* ----------------------- Orchestrator.run_query ----------------------- *)
(* src/orchestration/graph.py.  runs[id] is the frame of one execution of  *)
(* run_query on the one Orchestrator; the executions take their steps in   *)
(* any order.  What doc_agent.retrieve, web_agent.search and llm.chat do   *)
(* is chosen when they are called and kept in the frame.                   *)

\* the executions of run_query in progress together
RunIds == {1, 2}

OrchQueries == {<<"n", "e", "w", "s">>, <<"S", "L", "A", "s">>}

OrchMetadatas == {{<<"has_uploaded_docs", TRUE>>}, {}}

DocAlpha ==
    DocHit(TextVal(ALPHA), AbsentText, NumVal(500), TextVal(<<"a", ".", "t", "x", "t">>),
           MetadataVal(TextVal(<<"a", ".", "t", "x", "t">>), TextVal(<<"/", "d", "/", "a">>)))

DocBeta ==
    DocHit(TextVal(BETA), AbsentText, NoneNum, TextVal(<<"b", ".", "t", "x", "t">>),
           MetadataVal(TextVal(<<"b", ".", "t", "x", "t">>), TextVal(<<"/", "d", "/", "b">>)))

WebAlpha == WebHit(TextVal(<<"T", "1">>), TextVal(<<"u", "1">>), TextVal(ALPHA), NumVal(800))

WebDelta ==
    WebHit(TextVal(<<"T", "2">>), TextVal(<<"u", "2">>), TextVal(<<"d", "e", "l", "t", "a">>),
           NumVal(700))

\* a hit of _search_tavily for a result whose 'snippet' is null (web_agent.py 66)
WebNoSnippet == WebHit(TextVal(<<"T", "3">>), TextVal(<<"u", "3">>), NoneText, NumVal(700))

\* the lists doc_agent.retrieve returns when it returns
DocReplies == {<<>>, <<DocAlpha, DocBeta>>}

\* the lists web_agent.search returns when it returns
WebReplies == {<<WebAlpha>>, <<WebDelta, WebAlpha>>, <<WebNoSnippet>>}

NoReply == [raises |-> FALSE, hits |-> <<>>]

NoFused == [evidence |-> <<>>, summary_prompt |-> [header |-> "", lines |-> <<>>, footer |-> ""]]

NoResult ==
    [decision |-> [use_documents |-> FALSE, use_web |-> FALSE, reason |-> ""],
     doc_count |-> 0, web_count |-> 0, evidence |-> <<>>, answer |-> <<>>,
     sources_text |-> <<>>, citations |-> <<>>]

\* the frame of run_query(q, m) at its first statement
Frame(q, m) ==
    [query |-> q, metadata |-> m,
     decision |-> [use_documents |-> FALSE, use_web |-> FALSE, reason |-> ""],
     doc_reply |-> NoReply, web_reply |-> NoReply,
     doc_results |-> <<>>, web_results |-> <<>>,
     cands |-> <<>>, pos |-> 0, seen |-> {}, merged |-> <<>>, fused |-> NoFused,
     llm_reply |-> [raises |-> FALSE, text |-> <<>>],
     result |-> NoResult,
     log |-> <<>>,
     pc |-> "route"]

\* the frame of execution id becomes f
Step(id, f) == runs' = [runs EXCEPT ![id] = f]

\* mutant of SeenBy: the set of keys is kept on the shared FusionAgent
SeenByAgent(rs, id) == UNION {rs[j].seen : j \in DOMAIN rs}

\* fusion_agent.py line 53: seen is a local of each call of fuse
SeenBy(rs, id) == rs[id].seen

\* line 35: decision.get('use_documents')
AsksDocuments(d) == d.use_documents

\* line 44: decision.get('use_web')
AsksWeb(d) == d.use_web

\* mutant of AnswerInput: generate_answer is handed the list before the sort
AnswerInputUnsorted(f) == f.merged

\* line 55: generate_answer is handed what fuse returned
AnswerInput(f) == f.fused.evidence

OrchInit ==
    /\ runs \in [RunIds -> {Frame(q, m) : q \in OrchQueries, m \in OrchMetadatas}]
    /\ ChunkIdle
    /\ IngestIdle
    /\ SectionIdle
    /\ RouterIdle
    /\ FusionIdle
    /\ AnswerIdle
    /\ TokenIdle
    /\ ApiIdle

\* lines 28-32
RunRoute(id) ==
    /\ runs[id].pc = "route"
    /\ Step(id, [runs[id] EXCEPT !.decision = Decide(runs[id].query, runs[id].metadata),
                                 !.log = Append(@, "decide"),
                                 !.pc = "docs"])
    /\ UNCHANGED notOrch

\* lines 35-38: retrieve is called and returns
RunRetrieveReturns(id) ==
    /\ runs[id].pc = "docs"
    /\ AsksDocuments(runs[id].decision)
    /\ \E hits \in DocReplies :
          Step(id, [runs[id] EXCEPT !.doc_reply = [raises |-> FALSE, hits |-> hits],
                                    !.doc_results = hits,
                                    !.log = Append(@, "retrieve"),
                                    !.pc = "web"])
    /\ UNCHANGED notOrch

\* lines 35-41: retrieve is called and raises
RunRetrieveRaises(id) ==
    /\ runs[id].pc = "docs"
    /\ AsksDocuments(runs[id].decision)
    /\ Step(id, [runs[id] EXCEPT !.doc_reply = [raises |-> TRUE, hits |-> <<>>],
                                 !.doc_results = <<>>,
                                 !.log = Append(@, "retrieve"),
                                 !.pc = "web"])
    /\ UNCHANGED notOrch

\* line 35: the decision does not ask for documents
RunSkipRetrieve(id) ==
    /\ runs[id].pc = "docs"
    /\ ~AsksDocuments(runs[id].decision)
    /\ Step(id, [runs[id] EXCEPT !.pc = "web"])
    /\ UNCHANGED notOrch

\* lines 44-46: search is called and returns
RunSearchReturns(id) ==
    /\ runs[id].pc = "web"
    /\ AsksWeb(runs[id].decision)
    /\ \E hits \in WebReplies :
          Step(id, [runs[id] EXCEPT !.web_reply = [raises |-> FALSE, hits |-> hits],
                                    !.web_results = hits,
                                    !.log = Append(@, "search"),
                                    !.pc = "fuse"])
    /\ UNCHANGED notOrch

\* lines 44-49: search is called and raises
RunSearchRaises(id) ==
    /\ runs[id].pc = "web"
    /\ AsksWeb(runs[id].decision)
    /\ Step(id, [runs[id] EXCEPT !.web_reply = [raises |-> TRUE, hits |-> <<>>],
                                 !.web_results = <<>>,
                                 !.log = Append(@, "search"),
                                 !.pc = "fuse"])
    /\ UNCHANGED notOrch

\* line 44: the decision does not ask for the web
RunSkipSearch(id) ==
    /\ runs[id].pc = "web"
    /\ ~AsksWeb(runs[id].decision)
    /\ Step(id, [runs[id] EXCEPT !.pc = "fuse"])
    /\ UNCHANGED notOrch

\* line 52, fusion_agent.py lines 51-55: fuse is called with the two lists
RunFuseCall(id) ==
    /\ runs[id].pc = "fuse"
    /\ Step(id, [runs[id] EXCEPT !.cands = ProcessingOrder(runs[id].doc_results,
                                                           runs[id].web_results),
                                 !.pos = 1,
                                 !.seen = {},
                                 !.merged = <<>>,
                                 !.log = Append(@, "fuse"),
                                 !.pc = "loop"])
    /\ UNCHANGED notOrch

\* fusion_agent.py lines 55-87: one iteration of the loops of fuse; an
\* exception of the body leaves run_query, which has no handler around line 52
RunFuseHit(id) ==
    /\ runs[id].pc = "loop"
    /\ runs[id].pos <= Len(runs[id].cands)
    /\ LET c == runs[id].cands[runs[id].pos]
           snippet == NormalizeSnippet(c.snippet.v)
           key == DedupKey(snippet)
       IN  IF c.snippet.st # "value"
           THEN Step(id, [runs[id] EXCEPT !.log = Append(@, "fuse raised"), !.pc = "raised"])
           ELSE IF key \in SeenBy(runs, id)
           THEN Step(id, [runs[id] EXCEPT !.pos = @ + 1])
           ELSE IF c.failing
           THEN Step(id, [runs[id] EXCEPT !.log = Append(@, "fuse raised"), !.pc = "raised"])
           ELSE Step(id, [runs[id] EXCEPT
                            !.pos = @ + 1,
                            !.seen = @ \cup {key},
                            !.merged = Append(@, MakeCitation(snippet, c.source_type, c.source,
                                                              c.url, c.confidence))])
    /\ UNCHANGED notOrch

\* fusion_agent.py lines 89-98: fuse returns
RunFuseReturn(id) ==
    /\ runs[id].pc = "loop"
    /\ runs[id].pos > Len(runs[id].cands)
    /\ Step(id, [runs[id] EXCEPT !.fused = FuseResult(runs[id].merged),
                                 !.log = Append(@, "fuse returned"),
                                 !.pc = "answer"])
    /\ UNCHANGED notOrch

\* lines 57-65: the dict run_query returns for the frame f and the answer
RunResult(f, answer) ==
    [decision |-> f.decision,
     doc_count |-> Len(f.doc_results),
     web_count |-> Len(f.web_results),
     evidence |-> f.fused.evidence,
     answer |-> answer,
     sources_text |-> FormatCitations(AnswerInput(f)),
     citations |-> AnswerInput(f)]

\* lines 55-65, answer_agent.py 37-58: llm.chat returns and run_query returns
RunGenerateReturns(id) ==
    /\ runs[id].pc = "answer"
    /\ \E resp \in Responses :
          Step(id, [runs[id] EXCEPT !.llm_reply = [raises |-> FALSE, text |-> resp],
                                    !.result = RunResult(runs[id], resp),
                                    !.log = Append(@, "generate"),
                                    !.pc = "done"])
    /\ UNCHANGED notOrch

\* lines 55-65, answer_agent.py 59-64: llm.chat raises and run_query returns
\* the fallback
RunGenerateFallback(id) ==
    /\ runs[id].pc = "answer"
    /\ Step(id, [runs[id] EXCEPT !.llm_reply = [raises |-> TRUE, text |-> <<>>],
                                 !.result = RunResult(runs[id], FallbackAnswer(AnswerInput(runs[id]))),
                                 !.log = Append(@, "generate"),
                                 !.pc = "done"])
    /\ UNCHANGED notOrch

OrchNext ==
    \E id \in RunIds :
        \/ RunRoute(id)
        \/ RunRetrieveReturns(id) \/ RunRetrieveRaises(id) \/ RunSkipRetrieve(id)
        \/ RunSearchReturns(id) \/ RunSearchRaises(id) \/ RunSkipSearch(id)
        \/ RunFuseCall(id) \/ RunFuseHit(id) \/ RunFuseReturn(id)
        \/ RunGenerateReturns(id) \/ RunGenerateFallback(id)

OrchSpec == OrchInit /\ [][OrchNext]_vars

(* ------------------- DocumentChunker.chunk_by_tokens ------------------ *)
(* src/ingestion/chunking.py lines 130-192.                                *)
\* longest text handed to chunk_by_tokens
MaxTokenLen == 9
\* largest max_tokens tried
MaxTokens == 5

TokenAlphabet == {"a", " "}

\* mutant of ReachesLimit: the words are counted against max_tokens itself
ReachesLimitWords(n, limit) == n >= limit

\* line 157: len(chunk_words) >= max_tokens / 1.3, the quotient compared
\* exactly (the float quotient decides alike for max_tokens up to 100000)
ReachesLimit(n, limit) == 13 * n >= 10 * limit

\* lines 158, 177: ' '.join(chunk_words).strip()
TokenContent(ws) == Strip(Join(<<" ">>, ws))

\* lines 168, 185
TokenChunkId(d, i) == d \o "_token_chunk_" \o ToString(i)

\* lines 160-170, 178-188
TokenChunk(d, i, ws) ==
    [content |-> TokenContent(ws), chunk_id |-> TokenChunkId(d, i), document_id |-> d,
     chunk_index |-> i, word_count |-> Len(ws)]

TokenInit ==
    /\ text \in TextsOver(TokenAlphabet, MaxTokenLen)
    /\ max_tokens \in 1..MaxTokens
    /\ document_id \in DocIds
    /\ words = <<>>
    /\ word_pos = 0
    /\ chunk_words = <<>>
    /\ token_counter = 0
    /\ token_chunks = <<>>
    /\ tpc = "call"
    /\ chunk_size = 1
    /\ chunk_overlap = 0
    /\ start = 0
    /\ chunk_counter = 0
    /\ chunks = <<>>
    /\ cpc = "idle"
    /\ IngestIdle
    /\ SectionIdle
    /\ RouterIdle
    /\ FusionIdle
    /\ AnswerIdle
    /\ OrchIdle
    /\ ApiIdle

\* lines 148-151: the locals
TokensCall ==
    /\ tpc = "call"
    /\ words' = SplitWhitespace(text)
    /\ word_pos' = 0
    /\ chunk_words' = <<>>
    /\ token_counter' = 0
    /\ token_chunks' = <<>>
    /\ tpc' = "loop"
    /\ UNCHANGED <<text, document_id, max_tokens>>
    /\ UNCHANGED notToken

\* lines 153-173: one word of the for loop
TokensWord ==
    /\ tpc = "loop"
    /\ word_pos < Len(words)
    /\ LET ws == Append(chunk_words, words[word_pos + 1])
       IN  IF ReachesLimit(Len(ws), max_tokens)
           THEN /\ IF TokenContent(ws) # <<>>
                   THEN /\ token_chunks' =
                              Append(token_chunks, TokenChunk(document_id, token_counter, ws))
                        /\ token_counter' = token_counter + 1
                   ELSE UNCHANGED <<token_chunks, token_counter>>
                /\ chunk_words' = <<>>
           ELSE /\ chunk_words' = ws
                /\ UNCHANGED <<token_chunks, token_counter>>
    /\ word_pos' = word_pos + 1
    /\ UNCHANGED <<text, document_id, max_tokens, words, tpc>>
    /\ UNCHANGED notToken

\* lines 175-192: the remaining words are flushed and the list is returned
TokensReturn ==
    /\ tpc = "loop"
    /\ word_pos = Len(words)
    /\ token_chunks' = IF chunk_words # <<>>
                       THEN Append(token_chunks, TokenChunk(document_id, token_counter, chunk_words))
                       ELSE token_chunks
    /\ tpc' = "returned"
    /\ UNCHANGED <<text, document_id, max_tokens, words, word_pos, chunk_words, token_counter>>
    /\ UNCHANGED notToken

TokenNext == TokensCall \/ TokensWord \/ TokensReturn

TokenSpec == TokenInit /\ [][TokenNext]_vars

(* -------------------------- /upload and /query ------------------------ *)
(* src/api/app.py lines 35-88: UPLOAD_DIR, the index of doc_agent, and the *)
(* two endpoints, one request at a time.                                     *)
\* requests served in one behaviour
MaxRequests == 4

\* the file names of the uploads
FileNames == {<<"a", ".", "t", "x", "t">>, <<"a", ".", "p", "d", "f">>, <<"b">>}

\* doc_rag_agent.py line 35: Path(file_path).stem
Stem(name) ==
    IF RFind(name, ".", 0, Len(name)) > 0 THEN Slice(name, 0, RFind(name, ".", 0, Len(name)))
    ELSE name

\* line 79: any(UPLOAD_DIR.iterdir())
HasUploadedDocs(dir) == dir # {}

ApiInit ==
    /\ upload_dir = {}
    /\ indexed_docs = {}
    /\ requests = 0
    /\ response = [endpoint |-> "none", status |-> 0, detail |-> "",
                    has_uploaded_docs |-> FALSE, use_documents |-> FALSE]
    /\ ChunkIdle
    /\ IngestIdle
    /\ SectionIdle
    /\ RouterIdle
    /\ FusionIdle
    /\ AnswerIdle
    /\ OrchIdle
    /\ TokenIdle

\* lines 55-64: writing the file raises; the file opened for writing may
\* already be in the directory
UploadSaveFails(name) ==
    /\ requests < MaxRequests
    /\ requests' = requests + 1
    /\ upload_dir' \in {upload_dir, upload_dir \cup {name}}
    /\ response' = [endpoint |-> "upload", status |-> 500, detail |-> "Failed to save file",
                    has_uploaded_docs |-> FALSE,
                    use_documents |-> FALSE]
    /\ UNCHANGED indexed_docs
    /\ UNCHANGED notApi

\* lines 55-71: the file is saved and ingest_file raises; the file stays
UploadIngestFails(name) ==
    /\ requests < MaxRequests
    /\ requests' = requests + 1
    /\ upload_dir' = upload_dir \cup {name}
    /\ response' = [endpoint |-> "upload", status |-> 500, detail |-> "Ingestion failed",
                    has_uploaded_docs |-> FALSE,
                    use_documents |-> FALSE]
    /\ UNCHANGED indexed_docs
    /\ UNCHANGED notApi

\* lines 55-73: the file is saved and ingested
UploadReturns(name) ==
    /\ requests < MaxRequests
    /\ requests' = requests + 1
    /\ upload_dir' = upload_dir \cup {name}
    /\ indexed_docs' = indexed_docs \cup {Stem(name)}
    /\ response' = [endpoint |-> "upload", status |-> 200, detail |-> "uploaded",
                    has_uploaded_docs |-> FALSE,
                    use_documents |-> FALSE]
    /\ UNCHANGED notApi

\* the routing of a query for the directory as it is (lines 79-80, graph.py 29)
Routed(q, dir) == Decide(q, {<<"has_uploaded_docs", HasUploadedDocs(dir)>>})

\* lines 76-88: run_query returns
QueryReturns(q) ==
    /\ requests < MaxRequests
    /\ requests' = requests + 1
    /\ response' = [endpoint |-> "query", status |-> 200, detail |-> "",
                    has_uploaded_docs |-> HasUploadedDocs(upload_dir),
                    use_documents |-> Routed(q, upload_dir).use_documents]
    /\ UNCHANGED <<upload_dir, indexed_docs>>
    /\ UNCHANGED notApi

\* lines 76-86: run_query raises
QueryFails(q) ==
    /\ requests < MaxRequests
    /\ requests' = requests + 1
    /\ response' = [endpoint |-> "query", status |-> 500, detail |-> "Query failed",
                    has_uploaded_docs |-> HasUploadedDocs(upload_dir),
                    use_documents |-> Routed(q, upload_dir).use_documents]
    /\ UNCHANGED <<upload_dir, indexed_docs>>
    /\ UNCHANGED notApi

ApiNext ==
    \/ \E name \in FileNames :
          UploadSaveFails(name) \/ UploadIngestFails(name) \/ UploadReturns(name)
    \/ \E q \in OrchQueries : QueryReturns(q) \/ QueryFails(q)

ApiSpec == ApiInit /\ [][ApiNext]_vars

\* the hits of the call in the order fuse processes them
Processed == ProcessingOrder(doc_results.hits, web_results.hits)

\* the first 200 characters of the normalised snippet of processed hit i
KeyAt(i) == Prefix(NormalizeSnippet(Processed[i].snippet.v), 200)

\* the processed hits that no earlier hit shares its key with
FirstSeen == {i \in 1..Len(Processed) : \A j \in 1..(i - 1) : KeyAt(j) # KeyAt(i)}

\* the citation built from processed hit i alone
CitationOf(i) ==
    [claim |-> NormalizeSnippet(Processed[i].snippet.v),
     source_type |-> Processed[i].source_type,
     source |-> Processed[i].source,
     url |-> Processed[i].url,
     confidence |-> Processed[i].confidence]

\* C13: the fused evidence holds exactly one citation per distinct key (first
\* 200 characters of the normalised snippet) among the inputs, and it is the
\* citation built from the first hit with that key, document hits before web
\* hits, with that hit's confidence alone.
C13_FirstSeenKept ==
    fpc = "returned" =>
        /\ Len(fused.evidence) = Cardinality(FirstSeen)
        /\ Len(merged) = Cardinality(FirstSeen)
        /\ \A i \in FirstSeen :
              /\ merged[Cardinality({j \in FirstSeen : j <= i})] = CitationOf(i)
              /\ \E k \in 1..Len(fused.evidence) : fused.evidence[k] = CitationOf(i)

\* C13 witness: two document hits and a web hit that repeats the snippet of one
\* of them with another confidence give two citations, both from documents
C13_Witness ==
    /\ fpc = "returned"
    /\ Len(doc_results.hits) = 2
    /\ Len(web_results.hits) = 1
    /\ KeyAt(3) \in {KeyAt(1), KeyAt(2)}
    /\ KeyAt(1) # KeyAt(2)
    /\ \A i \in 1..2 : Processed[3].confidence # Processed[i].confidence
    /\ Len(fused.evidence) = 2
    /\ \A k \in 1..2 : fused.evidence[k].source_type = DOCUMENT

\* C14: whatever raw scores the hits carry (0, negative, above 1), every
\* citation of the fused evidence has a confidence within [0, 1].
C14_ConfidenceInUnitInterval ==
    fpc = "returned" =>
        \A k \in 1..Len(fused.evidence) :
            fused.evidence[k].confidence >= 0 /\ fused.evidence[k].confidence <= 1000

\* where citation c stands in the list of the two loops
MergedPosition(c) == CHOOSE i \in 1..Len(merged) : merged[i] = c

\* C15: the evidence returned by fuse is the processed citations ordered by
\* non-increasing confidence, and citations of equal confidence keep their
\* processing order (document hits in input order, then web hits in input order).
C15_SortedStable ==
    fpc = "returned" =>
        /\ Len(fused.evidence) = Len(merged)
        /\ \A k \in 1..Len(fused.evidence) : \E i \in 1..Len(merged) : merged[i] = fused.evidence[k]
        /\ \A k, l \in 1..Len(fused.evidence) :
              k < l =>
                 /\ fused.evidence[k].confidence >= fused.evidence[l].confidence
                 /\ fused.evidence[k].confidence = fused.evidence[l].confidence =>
                       MergedPosition(fused.evidence[k]) < MergedPosition(fused.evidence[l])

\* C15 witness: the sort has moved a citation forward past two of equal
\* confidence, a document one and a web one, which kept their order
C15_Witness ==
    /\ fpc = "returned"
    /\ Len(fused.evidence) = 3
    /\ fused.evidence[1] = merged[3]
    /\ fused.evidence[2] = merged[1]
    /\ fused.evidence[3] = merged[2]
    /\ merged[1].confidence = merged[2].confidence
    /\ merged[1].source_type = DOCUMENT
    /\ merged[2].source_type = INTERNET

\* the argument is None or an empty list
NoHits(results) == results.none \/ results.hits = <<>>

\* what the two loops make of the document hits alone and of the web hits alone
DocsAlone == MergeFrom(ProcessingOrder(doc_results.hits, <<>>), 1, <<>>, {})

WebsAlone == MergeFrom(ProcessingOrder(<<>>, web_results.hits), 1, <<>>, {})

\* C16: fuse never fails on absent or empty inputs: with both arguments None or
\* empty it returns an empty evidence list and a summary prompt, and with one
\* of them None or empty it does what the other list alone makes it do.
C16_EmptyInputsAreNoEvidence ==
    fpc # "call" =>
        /\ (NoHits(doc_results) /\ NoHits(web_results)) =>
              /\ fpc = "returned"
              /\ fused.evidence = <<>>
              /\ fused.summary_prompt.header # ""
              /\ fused.summary_prompt.lines = <<>>
        /\ NoHits(doc_results) =>
              /\ fpc = "raised" <=> WebsAlone.raised
              /\ fpc = "returned" => fused.evidence = SortedByConfidence(WebsAlone.merged)
        /\ NoHits(web_results) =>
              /\ fpc = "raised" <=> DocsAlone.raised
              /\ fpc = "returned" => fused.evidence = SortedByConfidence(DocsAlone.merged)

\* C16 witness: fuse has returned the citations of two web hits for
\* doc_results = None
C16_Witness ==
    /\ fpc = "returned"
    /\ doc_results.none
    /\ ~web_results.none
    /\ Len(fused.evidence) = 2
    /\ \A k \in 1..2 : fused.evidence[k].source_type = INTERNET

\* the raw scores of the hits in processing order: 'score' of a document hit,
\* 'confidence' of a web hit
RawScores ==
    [i \in 1..Len(doc_results.hits) |-> doc_results.hits[i].score] \o
    [i \in 1..Len(web_results.hits) |-> web_results.hits[i].confidence]

\* C17: when no two input hits share a key and the hits come in descending
\* order of distinct scores, the fused evidence holds every hit in the order
\* of the input.
C17_SortedInputKeepsOrder ==
    (/\ fpc = "returned"
     /\ \A i, j \in 1..Len(Processed) : i # j => KeyAt(i) # KeyAt(j)
     /\ \A i \in 1..Len(RawScores) : RawScores[i].st = "value"
     /\ \A i, j \in 1..Len(RawScores) : i < j => RawScores[i].v > RawScores[j].v) =>
        /\ Len(fused.evidence) = Len(Processed)
        /\ \A i \in 1..Len(Processed) : fused.evidence[i] = CitationOf(i)

\* C18: whenever llm.chat raises, generate_answer returns, and its answer is
\* the claims of the first min(3, n) citations of the fused evidence joined by
\* single spaces, in evidence order.
C18_FallbackJoinsFirstThree ==
    (apc = "returned" /\ llm_reply.raises) =>
        LET ev == fused.evidence
        IN  final.answer =
               IF Len(ev) = 0 THEN <<>>
               ELSE IF Len(ev) = 1 THEN ev[1].claim
               ELSE IF Len(ev) = 2 THEN ev[1].claim \o <<" ">> \o ev[2].claim
               ELSE ev[1].claim \o <<" ">> \o ev[2].claim \o <<" ">> \o ev[3].claim

\* C18 witness: the fallback has answered from more than three citations, the
\* fourth of which has a claim too
C18_Witness ==
    /\ apc = "returned"
    /\ llm_reply.raises
    /\ Len(fused.evidence) > 3
    /\ fused.evidence[4].claim # <<>>
    /\ final.answer # <<>>

\* C19: whenever the generation raises, generate_answer returns a non-empty
\* answer, for every fused evidence the pipeline hands it, the one of two
\* empty retrievals included.
C19_FallbackAnswerNonEmpty ==
    (apc = "returned" /\ llm_reply.raises) => final.answer # <<>>

\* the text t cut at its line breaks ("" has no line)
RECURSIVE LinesOf(_)
LinesOf(t) ==
    LET breaks == {i \in 1..Len(t) : t[i] = "\n"}
    IN  IF t = <<>> THEN <<>>
        ELSE IF breaks = {} THEN <<t>>
        ELSE LET n == CHOOSE i \in breaks : \A j \in breaks : i <= j
             IN  <<SubSeq(t, 1, n - 1)>> \o
                 (IF n = Len(t) THEN <<<<>>>> ELSE LinesOf(SubSeq(t, n + 1, Len(t))))

\* what a sources entry names for citation c: its source, or its url when the
\* source is empty or None, or "unknown" when both are
ShownSource(c) ==
    IF c.source.st = "value" /\ c.source.v # <<>> THEN c.source.v
    ELSE IF c.url.st = "value" /\ c.url.v # <<>> THEN c.url.v
    ELSE <<"u", "n", "k", "n", "o", "w", "n">>

\* C20 as amended: on both paths generate_answer returns citations equal to
\* the fused evidence in its ranked order, and sources_text is one entry per
\* citation (all of them, not only the 15 of the prompt) joined by line
\* breaks, the i-th entry being "[i] s (source_type)" where s is the
\* citation's source, or its url when the source is empty or None, or
\* "unknown" when both are.
C20_SourcesListEveryCitation ==
    apc = "returned" =>
        /\ final.citations = fused.evidence
        /\ final.sources_text =
              Join(<<"\n">>,
                   [i \in 1..Len(fused.evidence) |->
                       <<"[">> \o DecimalChars(i) \o <<"]", " ">> \o ShownSource(fused.evidence[i]) \o
                       <<" ", "(">> \o fused.evidence[i].source_type \o <<")">>])

\* C20 witness: the fallback has listed re-ranked citations, one of them
\* without a source
C20_Witness ==
    /\ apc = "returned"
    /\ llm_reply.raises
    /\ merged # fused.evidence
    /\ \E k \in 1..Len(final.citations) : ~TruthyText(final.citations[k].source)
    /\ Len(LinesOf(final.sources_text)) = Len(final.citations)

\* C20 as stated: citations equal the fused evidence, and sources_text has
\* exactly one line per citation, the i-th line being "[i] source (source_type)".
C20_SourcesLineIsSource ==
    apc = "returned" =>
        /\ final.citations = fused.evidence
        /\ Len(LinesOf(final.sources_text)) = Len(fused.evidence)
        /\ \A i \in 1..Len(fused.evidence) :
              LinesOf(final.sources_text)[i] =
                 <<"[">> \o DecimalChars(i) \o <<"]", " ">> \o fused.evidence[i].source.v \o
                 <<" ", "(">> \o fused.evidence[i].source_type \o <<")">>

\* C21: for every query and every combination of success or failure of the
\* retrieval, the web search and the generation, run_query returns without
\* raising; a retrieval that raises counts 0 hits while the hits of the other
\* source are fused and answered.
C21_RunQueryNeverRaises ==
    \A id \in DOMAIN runs :
        /\ runs[id].pc # "raised"
        /\ runs[id].pc = "done" =>
              /\ runs[id].doc_reply.raises => runs[id].result.doc_count = 0
              /\ runs[id].web_reply.raises => runs[id].result.web_count = 0
              /\ (runs[id].doc_reply.raises /\ ~runs[id].web_reply.raises) =>
                     Len(runs[id].result.evidence) >= Min(1, Len(runs[id].web_reply.hits))
              /\ (runs[id].web_reply.raises /\ ~runs[id].doc_reply.raises) =>
                     Len(runs[id].result.evidence) >= Min(1, Len(runs[id].doc_reply.hits))

\* how often the event e stands in the log
Count(log, e) == Cardinality({i \in 1..Len(log) : log[i] = e})

\* the execution is past its retrieval and past its web search
PastDocs(f) == f.pc \notin {"route", "docs"}

PastWeb(f) == f.pc \notin {"route", "docs", "web"}

\* the collaborator calls of an execution are made at most once and as routed
CallsAsRouted(f) ==
    /\ Count(f.log, "retrieve") = IF PastDocs(f) /\ f.decision.use_documents THEN 1 ELSE 0
    /\ Count(f.log, "search") = IF PastWeb(f) /\ f.decision.use_web THEN 1 ELSE 0
    /\ Count(f.log, "generate") <= 1

\* C25: per query, document retrieval is invoked exactly once if use_documents
\* is true and never otherwise, web search exactly once if use_web is true and
\* never otherwise, and the generation is attempted exactly once, without a
\* retry, whatever the outcomes of the calls.
C25_GenerationExactlyOnce ==
    \A id \in DOMAIN runs :
        /\ CallsAsRouted(runs[id])
        /\ runs[id].pc \in {"done", "raised"} => Count(runs[id].log, "generate") = 1

\* the events of e stand in the log in this order
InOrder(log, first, second) ==
    \A i, j \in 1..Len(log) : (log[i] = second /\ log[j] = first) => j < i

\* the event e is in the log
Logged(log, e) == \E i \in 1..Len(log) : log[i] = e

\* C26: within one query the routing decision precedes every retrieval call;
\* fuse is called only after every retrieval the decision selects has
\* returned or failed, a failed one supplied as an empty list; and
\* generate_answer is called only after fuse has returned, on exactly the
\* evidence fuse returned.
C26_PipelineOrder ==
    \A id \in DOMAIN runs :
        LET f == runs[id]
        IN  /\ (f.log # <<>>) => f.log[1] = "decide"
            /\ Logged(f.log, "fuse") =>
                  /\ f.decision.use_documents => Logged(f.log, "retrieve")
                  /\ f.decision.use_web => Logged(f.log, "search")
                  /\ InOrder(f.log, "retrieve", "fuse")
                  /\ InOrder(f.log, "search", "fuse")
                  /\ f.cands = ProcessingOrder(IF f.doc_reply.raises THEN <<>> ELSE f.doc_reply.hits,
                                               IF f.web_reply.raises THEN <<>> ELSE f.web_reply.hits)
            /\ Logged(f.log, "generate") =>
                  /\ Logged(f.log, "fuse returned")
                  /\ InOrder(f.log, "fuse returned", "generate")
                  /\ f.result.citations = f.fused.evidence
                  /\ f.result.evidence = f.fused.evidence

\* C26 witness: an execution has returned after a retrieval that raised and a
\* search that returned, answering from evidence the sort re-ranked
C26_Witness ==
    \E id \in DOMAIN runs :
        /\ runs[id].pc = "done"
        /\ runs[id].doc_reply.raises
        /\ runs[id].log = <<"decide", "retrieve", "search", "fuse", "fuse returned", "generate">>
        /\ Len(runs[id].result.citations) = 2

\* what run_query does alone for the query, the metadata and the replies of
\* its collaborators
RunAlone(q, m, doc_reply_, web_reply_, llm_reply_) ==
    LET d == Decide(q, m)
        docs == IF d.use_documents /\ ~doc_reply_.raises THEN doc_reply_.hits ELSE <<>>
        webs == IF d.use_web /\ ~web_reply_.raises THEN web_reply_.hits ELSE <<>>
        loops == FuseLoops([none |-> FALSE, hits |-> docs], [none |-> FALSE, hits |-> webs])
        ev == FuseResult(loops.merged).evidence
    IN  [raised |-> loops.raised,
         result |-> [decision |-> d, doc_count |-> Len(docs), web_count |-> Len(webs),
                     evidence |-> ev,
                     answer |-> IF llm_reply_.raises THEN FallbackAnswer(ev) ELSE llm_reply_.text,
                     sources_text |-> FormatCitations(ev),
                     citations |-> ev]]

AloneOf(f) == RunAlone(f.query, f.metadata, f.doc_reply, f.web_reply, f.llm_reply)

\* C27: for every interleaving of the executions of run_query on the one
\* Orchestrator, each query's decision, evidence and answer are those it
\* produces alone with the same collaborator replies, a step of one execution
\* changes no other execution's state, and an execution that fails changes no
\* other's result.
C27_QueriesIndependent ==
    /\ [](\A id \in DOMAIN runs :
            /\ runs[id].pc = "done" =>
                  ~AloneOf(runs[id]).raised /\ runs[id].result = AloneOf(runs[id]).result
            /\ runs[id].pc = "raised" => AloneOf(runs[id]).raised)
    /\ [][\E id \in DOMAIN runs : \A other \in DOMAIN runs \ {id} : runs'[other] = runs[other]]_vars

\* C27 witness: two executions are inside the loops of fuse together and have
\* both seen the same key, and one of them then fails
C27_Witness ==
    /\ runs[1].pc = "loop"
    /\ runs[2].pc = "raised"
    /\ runs[1].seen # {}
    /\ runs[1].seen \subseteq runs[2].seen

\* the weight of the source type of processed hit i
WeightOf(i) == IF i <= Len(doc_results.hits) THEN 1200 ELSE 1000

\* the default score of the source type of processed hit i
DefaultOf(i) == IF i <= Len(doc_results.hits) THEN 600 ELSE 500

\* C23: a document hit with raw score s, whatever its value, 0 included, is
\* given the confidence min(1.0, s * 1.2) and a web hit with raw confidence c
\* the confidence min(1.0, c * 1.0); the defaults 0.6 and 0.5 are used only when
\* the hit carries no raw score; the document weight is strictly greater than
\* the web weight.
C23_ConfidenceIsWeightedScore ==
    /\ DocPriority > WebPriority
    /\ fpc = "returned" =>
          \A i \in FirstSeen :
              LET raw == IF RawScores[i].st = "value" THEN RawScores[i].v ELSE DefaultOf(i)
                  expected == Min(1000, (raw * WeightOf(i)) \div 1000)
              IN  \E k \in 1..Len(fused.evidence) :
                      /\ fused.evidence[k].claim = CitationOf(i).claim
                      /\ fused.evidence[k].confidence = expected

\* C24: for a document hit with any subset of 'score' and 'metadata' absent or
\* null and a web hit with any subset of 'title', 'url', 'snippet' and
\* 'confidence' absent or null, fuse returns, without raising, a citation for
\* every hit.
C24_OptionalFieldsTolerated ==
    /\ fpc # "raised"
    /\ fpc = "returned" =>
          Len(fused.evidence) = Len(doc_results.hits) + Len(web_results.hits)

\* C28: with 0 <= chunk_overlap < chunk_size, at every iteration of the loop
\* start is not negative (also after a boundary-shortened window), and every
\* emitted chunk records 0 <= start_position < end_position <= len(text) with
\* a start_position strictly greater than that of the chunk before it.
C28_WindowWithinText ==
    (chunk_overlap < chunk_size) =>
        /\ cpc \in {"loop", "body"} => start >= 0
        /\ \A i \in 1..Len(chunks) :
              /\ 0 <= chunks[i].start_position
              /\ chunks[i].start_position < chunks[i].end_position
              /\ chunks[i].end_position <= Len(text)
              /\ i > 1 => chunks[i].start_position > chunks[i - 1].start_position

\* the character positions (from 0) the recorded windows of the chunks cover
Covered == {p \in 0..(Len(text) - 1) :
               \E i \in 1..Len(chunks) :
                   chunks[i].start_position <= p /\ p < chunks[i].end_position}

\* C29: when chunk_text returns, every position of the text that holds a
\* non-whitespace character lies within the recorded window of at least one
\* returned chunk.
C29_NoTextLost ==
    cpc = "returned" =>
        \A p \in 0..(Len(text) - 1) : text[p + 1] \notin Whitespace => p \in Covered

\* C29 witness: a returned pass of several chunks that skipped a window of
\* whitespace, whose positions no chunk covers
C29_Witness ==
    /\ cpc = "returned"
    /\ Len(chunks) >= 2
    /\ Covered # 0..(Len(text) - 1)
    /\ \E i \in 1..Len(chunks) : chunks[i].end_position - chunks[i].start_position < chunk_size

\* the words of the chunks from chunk i on, in order
RECURSIVE WordsFrom(_, _)
WordsFrom(cs, i) ==
    IF i > Len(cs) THEN <<>> ELSE SplitWhitespace(cs[i].content) \o WordsFrom(cs, i + 1)

\* the smallest integer that is at least limit / 1.3
WordsPerChunk(limit) ==
    CHOOSE n \in 0..limit : 13 * n >= 10 * limit /\ \A k \in 0..(n - 1) : 13 * k < 10 * limit

\* C22: for every text and max_tokens >= 1 the words of the returned chunks, in
\* order, are the whitespace-split words of the text; every chunk but the last
\* holds exactly T words, T the smallest integer >= max_tokens / 1.3, the last
\* chunk between 1 and T; word_count is the chunk's number of words and the
\* chunk_index values are 0..n-1.
C22_TokenChunksPartitionWords ==
    tpc = "returned" =>
        LET n == Len(token_chunks)
            T == WordsPerChunk(max_tokens)
        IN  /\ WordsFrom(token_chunks, 1) = SplitWhitespace(text)
            /\ \A i \in 1..n :
                  LET k == Len(SplitWhitespace(token_chunks[i].content))
                  IN  /\ i < n => k = T
                      /\ i = n => k >= 1 /\ k <= T
                      /\ token_chunks[i].word_count = k
                      /\ token_chunks[i].chunk_index = i - 1

\* C22 witness: five words with max_tokens 5 have come back as a chunk of
\* four words and a last chunk of one
C22_Witness ==
    /\ tpc = "returned"
    /\ max_tokens = 5
    /\ Len(token_chunks) = 2
    /\ token_chunks[1].word_count = 4
    /\ token_chunks[2].word_count = 1
    /\ Len(words) = 5

\* C30: after any sequence of /upload requests, each of which may fail while
\* saving or while ingesting, and /query requests, the upload directory is
\* non-empty only if some ingestion succeeded, so whenever a /query is routed
\* with has_uploaded_docs = true at least one uploaded file is in the index.
C30_UploadedMeansIngested ==
    /\ upload_dir # {} => indexed_docs # {}
    /\ (response.endpoint = "query" /\ response.has_uploaded_docs) => indexed_docs # {}

(* ----------------------- claims about chunk_text ---------------------- *)
\* C1: with 0 <= chunk_overlap < chunk_size, chunk_text terminates: the loop
\* reaches start >= len(text) and the list is returned.  A run that the model
\* cuts at MaxChunks is not counted against the claim, so a violation is a
\* cycle of the loop itself.
C1_ChunkTextTerminates ==
    (chunk_overlap < chunk_size) => <>(cpc = "returned" \/ Len(chunks) = MaxChunks)

\* C2: at every point of a pass with chunk_overlap < chunk_size the emitted
\* chunks have chunk_index 0..n-1 in emission order, chunk_id
\* "{document_id}_chunk_{chunk_index}" and non-empty trimmed content, and the
\* counter has advanced once per emitted chunk (never for an empty window).
C2_ChunkIndicesContiguous ==
    (chunk_overlap < chunk_size /\ cpc \in {"loop", "body", "returned"}) =>
        /\ chunk_counter = Len(chunks)
        /\ \A i \in 1..Len(chunks) :
              /\ chunks[i].chunk_index = i - 1
              /\ chunks[i].chunk_id = document_id \o "_chunk_" \o ToString(i - 1)
              /\ chunks[i].content # <<>>
              /\ chunks[i].content[1] \notin Whitespace
              /\ chunks[i].content[Len(chunks[i].content)] \notin Whitespace

\* C2 witness: a returned pass with two chunks and a skipped window between them
C2_Witness ==
    /\ cpc = "returned"
    /\ chunk_overlap = 0
    /\ Len(chunks) = 2
    /\ chunks[2].start_position >= chunks[1].end_position + chunk_size

\* C3: with chunk_overlap >= chunk_size the call raises before any window is
\* examined and without a chunk, and the parameters are never changed.
C3_InvalidOverlapRaises ==
    /\ [](chunk_overlap >= chunk_size =>
            cpc \in {"call", "raised"} /\ chunks = <<>> /\ start = 0)
    /\ [][/\ chunk_size' = chunk_size
          /\ chunk_overlap' = chunk_overlap
          /\ (cpc = "call" /\ chunk_overlap >= chunk_size => cpc' = "raised")]_vars

\* C3 witness: the call has raised for overlap = size
C3_Witness == cpc = "raised" /\ chunk_overlap = chunk_size /\ text # <<>>

\* C5: every emitted chunk has between 1 and chunk_size characters and a
\* recorded window no wider than chunk_size.
C5_ChunkSizeBounded ==
    (chunk_overlap < chunk_size) =>
        \A i \in 1..Len(chunks) :
            /\ Len(chunks[i].content) >= 1
            /\ Len(chunks[i].content) <= chunk_size
            /\ chunks[i].end_position - chunks[i].start_position <= chunk_size

\* C5 witness: a full-size chunk and a boundary-shortened one in one pass
C5_Witness ==
    /\ chunk_overlap < chunk_size
    /\ \E i, j \in 1..Len(chunks) :
          /\ Len(chunks[i].content) = chunk_size
          /\ chunks[j].end_position - chunks[j].start_position < chunk_size
          /\ chunks[j].end_position < Len(text)

====
